---------------------------- MODULE Spec2Model ----------------------------
(***************************************************************************)
(* A model of the telegroup report pipeline:                               *)
(*   - src/src/ai_client.py: _extract_json_from_content, call_chat_analysis *)
(*   - src/src/report_generator.py: thread grouping, batching, merging and *)
(*     rendering of the AI summary section.                                *)
(*                                                                         *)
(* Text is a sequence of characters.  A character is a one-character TLA+  *)
(* string; the backtick, which a TLA+ string cannot hold, is the atom TICK.*)
(* Positions are 1-based: Python's index k is position k + 1 here, and a   *)
(* find() that fails gives 0 where Python gives -1.                        *)
(***************************************************************************)
EXTENDS Integers, Sequences, FiniteSets, TLC

TICK == "TICK"
QUOTE == "\""
BACKSLASH == "\\"
NEWLINE == "\n"
SPACE == " "

Digits == {"0", "1", "2", "3"}
Letters == {"a", "c", "e", "g", "i", "j", "l", "m", "n", "o", "r", "s", "t", "u", "v", "y", "A", "B"}
Whitespace == {SPACE, NEWLINE}
Alphabet == {"{", "}", "[", "]", QUOTE, BACKSLASH, ":", ",", TICK} \cup Whitespace \cup Digits \cup Letters

\* ord(c) for the characters of Alphabet.
Ord(c) ==
  CASE c = NEWLINE -> 10 [] c = SPACE -> 32 [] c = QUOTE -> 34 [] c = "," -> 44
    [] c = "0" -> 48 [] c = "1" -> 49 [] c = "2" -> 50 [] c = "3" -> 51
    [] c = ":" -> 58 [] c = "A" -> 65 [] c = "B" -> 66
    [] c = "[" -> 91 [] c = BACKSLASH -> 92 [] c = "]" -> 93 [] c = TICK -> 96
    [] c = "a" -> 97 [] c = "c" -> 99 [] c = "e" -> 101 [] c = "g" -> 103
    [] c = "i" -> 105 [] c = "j" -> 106 [] c = "l" -> 108 [] c = "m" -> 109
    [] c = "n" -> 110 [] c = "o" -> 111 [] c = "r" -> 114 [] c = "s" -> 115
    [] c = "t" -> 116 [] c = "u" -> 117 [] c = "v" -> 118 [] c = "y" -> 121
    [] c = "{" -> 123 [] c = "}" -> 125

\* The code points of a text: the value of a Python str.
Ords(s) == [k \in 1..Len(s) |-> Ord(s[k])]

DigitVal(c) == Ord(c) - 48

IsHex(c) == c \in Digits \cup {"a", "c", "e", "A", "B"}

HexVal(c) ==
  IF c \in Digits THEN DigitVal(c)
  ELSE CASE c = "a" -> 10 [] c = "A" -> 10 [] c = "B" -> 11 [] c = "c" -> 12 [] c = "e" -> 14

(***************************************************************************)
(* JSON values, as json.loads builds them.  A str is its code points, a    *)
(* dict is its items in insertion order (keys unique).                     *)
(***************************************************************************)
JObject(items) == [t |-> "object", v |-> items]
JArray(items) == [t |-> "array", v |-> items]
JString(cps) == [t |-> "string", v |-> cps]
JInt(n) == [t |-> "int", v |-> n]
JFloat(mant, exp) == [t |-> "float", v |-> <<mant, exp>>]
JTrue == [t |-> "true", v |-> 1]
JNull == [t |-> "null", v |-> 0]

IsDict(x) == x.t = "object"
IsList(x) == x.t = "array"

\* Python truthiness of a decoded JSON value.
Truthy(x) ==
  CASE x.t = "object" -> Len(x.v) > 0
    [] x.t = "array" -> Len(x.v) > 0
    [] x.t = "string" -> Len(x.v) > 0
    [] x.t = "int" -> x.v # 0
    [] x.t = "float" -> x.v[1] # 0
    [] x.t = "true" -> TRUE
    [] x.t = "null" -> FALSE

\* dict[key] = val: a new key goes last, a repeated key keeps its place.
DictSet(items, key, val) ==
  IF \E k \in 1..Len(items) : items[k].k = key
  THEN [k \in 1..Len(items) |-> IF items[k].k = key THEN [k |-> key, val |-> val] ELSE items[k]]
  ELSE Append(items, [k |-> key, val |-> val])

HasKey(d, key) == \E k \in 1..Len(d.v) : d.v[k].k = key

\* dict.get(key): None (JNull) when the key is absent.
DictGet(d, key) ==
  IF HasKey(d, key)
  THEN d.v[CHOOSE k \in 1..Len(d.v) : d.v[k].k = key].val
  ELSE JNull

(***************************************************************************)
(* str.strip(), str.find(), slices                                         *)
(***************************************************************************)
RECURSIVE LStrip(_)
LStrip(s) == IF s # <<>> /\ Head(s) \in Whitespace THEN LStrip(Tail(s)) ELSE s

RECURSIVE RStrip(_)
RStrip(s) == IF s # <<>> /\ s[Len(s)] \in Whitespace THEN RStrip(SubSeq(s, 1, Len(s) - 1)) ELSE s

Strip(s) == RStrip(LStrip(s))

\* Position of the first c in s, 0 when there is none.
Find(s, c) ==
  IF \E k \in 1..Len(s) : s[k] = c
  THEN CHOOSE k \in 1..Len(s) : s[k] = c /\ \A j \in 1..(k - 1) : s[j] # c
  ELSE 0

\* Whether the text w stands in s at position p.
StartsAt(s, p, w) == p >= 1 /\ p + Len(w) - 1 <= Len(s) /\ SubSeq(s, p, p + Len(w) - 1) = w

RECURSIVE SkipWs(_, _)
SkipWs(s, p) == IF p <= Len(s) /\ s[p] \in Whitespace THEN SkipWs(s, p + 1) ELSE p

RECURSIVE SkipDigits(_, _)
SkipDigits(s, p) == IF p <= Len(s) /\ s[p] \in Digits THEN SkipDigits(s, p + 1) ELSE p

RECURSIVE DecVal(_)
DecVal(ds) == IF ds = <<>> THEN 0 ELSE 10 * DecVal(SubSeq(ds, 1, Len(ds) - 1)) + DigitVal(ds[Len(ds)])

(***************************************************************************)
(* json.loads over texts of Alphabet.  A scan gives [ok, val, end]: end is *)
(* the position after the value.  ok = FALSE is json.JSONDecodeError.      *)
(***************************************************************************)
Fail == [ok |-> FALSE, val |-> JNull, end |-> 0]
Ok(val, end) == [ok |-> TRUE, val |-> val, end |-> end]

\* py_scanstring (strict): p is the position after the opening quote.
RECURSIVE ScanString(_, _, _)
ScanString(s, p, acc) ==
  IF p > Len(s) THEN Fail
  ELSE IF s[p] = QUOTE THEN Ok(JString(acc), p + 1)
  ELSE IF s[p] = NEWLINE THEN Fail
  ELSE IF s[p] # BACKSLASH THEN ScanString(s, p + 1, Append(acc, Ord(s[p])))
  ELSE IF p + 1 > Len(s) THEN Fail
  ELSE IF s[p + 1] \in {QUOTE, BACKSLASH} THEN ScanString(s, p + 2, Append(acc, Ord(s[p + 1])))
  ELSE IF s[p + 1] = "n" THEN ScanString(s, p + 2, Append(acc, 10))
  ELSE IF s[p + 1] = "r" THEN ScanString(s, p + 2, Append(acc, 13))
  ELSE IF s[p + 1] = "t" THEN ScanString(s, p + 2, Append(acc, 9))
  ELSE IF s[p + 1] = "u" /\ p + 5 <= Len(s) /\ \A k \in (p + 2)..(p + 5) : IsHex(s[k])
    THEN ScanString(s, p + 6, Append(acc,
           4096 * HexVal(s[p + 2]) + 256 * HexVal(s[p + 3]) + 16 * HexVal(s[p + 4]) + HexVal(s[p + 5])))
  ELSE Fail

\* NUMBER_RE: (-?(?:0|[1-9]\d*))(\.\d+)?([eE][-+]?\d+)? without the signs and
\* the point, which Alphabet does not hold.
ScanNumber(s, p) ==
  LET intEnd == IF s[p] = "0" THEN p + 1 ELSE SkipDigits(s, p)
      mant == DecVal(SubSeq(s, p, intEnd - 1))
      expEnd == IF intEnd <= Len(s) /\ s[intEnd] = "e" THEN SkipDigits(s, intEnd + 1) ELSE intEnd
  IN IF expEnd > intEnd + 1
     THEN Ok(JFloat(mant, DecVal(SubSeq(s, intEnd + 1, expEnd - 1))), expEnd)
     ELSE Ok(JInt(mant), intEnd)

RECURSIVE ScanValue(_, _)
RECURSIVE ScanObjectItems(_, _, _)
RECURSIVE ScanArrayItems(_, _, _)

\* JSONObject, after a pair: '}' ends the object, ',' must be followed by a key.
ObjectNextKey(s, q, items) ==
  IF q > Len(s) \/ s[q] # QUOTE THEN Fail ELSE ScanObjectItems(s, q, items)

ObjectAfterPair(s, nxt, items) ==
  IF nxt > Len(s) THEN Fail
  ELSE IF s[nxt] = "}" THEN Ok(JObject(items), nxt + 1)
  ELSE IF s[nxt] # "," THEN Fail
  ELSE ObjectNextKey(s, SkipWs(s, nxt + 1), items)

ObjectAfterValue(s, key, val, items) ==
  IF ~val.ok THEN Fail ELSE ObjectAfterPair(s, SkipWs(s, val.end), DictSet(items, key, val.val))

ObjectAfterColon(s, key, colon, items) ==
  IF colon > Len(s) \/ s[colon] # ":" THEN Fail
  ELSE ObjectAfterValue(s, key, ScanValue(s, SkipWs(s, colon + 1)), items)

ObjectAfterKey(s, key, items) ==
  IF ~key.ok THEN Fail ELSE ObjectAfterColon(s, key.val.v, SkipWs(s, key.end), items)

\* JSONObject's loop: p is at the quote that opens a key.
ScanObjectItems(s, p, items) == ObjectAfterKey(s, ScanString(s, p + 1, <<>>), items)

ArrayAfterItem(s, nxt, items) ==
  IF nxt > Len(s) THEN Fail
  ELSE IF s[nxt] = "]" THEN Ok(JArray(items), nxt + 1)
  ELSE IF s[nxt] # "," THEN Fail
  ELSE ScanArrayItems(s, SkipWs(s, nxt + 1), items)

ArrayAfterValue(s, val, items) ==
  IF ~val.ok THEN Fail ELSE ArrayAfterItem(s, SkipWs(s, val.end), Append(items, val.val))

\* JSONArray's loop: p is at the start of an element.
ScanArrayItems(s, p, items) == ArrayAfterValue(s, ScanValue(s, p), items)

ObjectOpen(s, q) ==
  IF q > Len(s) THEN Fail
  ELSE IF s[q] = "}" THEN Ok(JObject(<<>>), q + 1)
  ELSE IF s[q] # QUOTE THEN Fail
  ELSE ScanObjectItems(s, q, <<>>)

ArrayOpen(s, q) ==
  IF q > Len(s) THEN Fail
  ELSE IF s[q] = "]" THEN Ok(JArray(<<>>), q + 1)
  ELSE ScanArrayItems(s, q, <<>>)

\* scan_once
ScanValue(s, p) ==
  IF p > Len(s) THEN Fail
  ELSE IF s[p] = QUOTE THEN ScanString(s, p + 1, <<>>)
  ELSE IF s[p] = "{" THEN ObjectOpen(s, SkipWs(s, p + 1))
  ELSE IF s[p] = "[" THEN ArrayOpen(s, SkipWs(s, p + 1))
  ELSE IF StartsAt(s, p, <<"n", "u", "l", "l">>) THEN Ok(JNull, p + 4)
  ELSE IF StartsAt(s, p, <<"t", "r", "u", "e">>) THEN Ok(JTrue, p + 4)
  ELSE IF s[p] \in Digits THEN ScanNumber(s, p)
  ELSE Fail

\* JSONDecoder.decode: one value, whitespace around it, nothing else.
WholeText(s, r) == IF r.ok /\ SkipWs(s, r.end) = Len(s) + 1 THEN r ELSE Fail

\* json.loads(s)
JsonLoads(s) == WholeText(s, ScanValue(s, SkipWs(s, 1)))

(***************************************************************************)
(* _extract_json_from_content (ai_client.py): the four strategies as       *)
(* operators.  A strategy gives [ok, val]; ok = FALSE: it did not parse.   *)
(***************************************************************************)
NoParse == [ok |-> FALSE, val |-> JNull]
Parsed(val) == [ok |-> TRUE, val |-> val]

\* A call's outcome: a returned value, or a raised exception.
Return(val) == [kind |-> "return", val |-> val, exc |-> "none"]
Raise(exc) == [kind |-> "raise", val |-> JNull, exc |-> exc]
Pending == [kind |-> "pending", val |-> JNull, exc |-> "none"]

\* try: return json.loads(...) / except json.JSONDecodeError
TryLoads(r) == IF r.ok THEN Parsed(r.val) ELSE NoParse

\* Case 1: json.loads(content).
StrategyDirect(content) == TryLoads(JsonLoads(content))

FENCE == <<TICK, TICK, TICK>>

\* re.search(r'```(?:json)?\s*\n?(.*?)\n?```', content, re.DOTALL): the
\* leftmost opening fence, the optional tag and the whitespace after it, then
\* the shortest text up to a closing fence (with the newline before it).
\* [found, from, to]: group(1) is content[from .. to - 1].
FenceSearch(content) ==
  LET opens == {p \in 1..Len(content) : StartsAt(content, p, FENCE)}
  IN IF opens = {} THEN [found |-> FALSE, from |-> 0, to |-> 0]
     ELSE LET p == CHOOSE q \in opens : \A o \in opens : q <= o
              tagEnd == IF StartsAt(content, p + 3, <<"j", "s", "o", "n">>) THEN p + 7 ELSE p + 3
              from == SkipWs(content, tagEnd)
              closes == {e \in from..Len(content) :
                           \/ StartsAt(content, e, FENCE)
                           \/ content[e] = NEWLINE /\ StartsAt(content, e + 1, FENCE)}
          IN IF closes = {} THEN [found |-> FALSE, from |-> 0, to |-> 0]
             ELSE [found |-> TRUE, from |-> from, to |-> CHOOSE e \in closes : \A c \in closes : e <= c]

FenceGroup(content, m) ==
  IF ~m.found THEN NoParse ELSE TryLoads(JsonLoads(Strip(SubSeq(content, m.from, m.to - 1))))

\* Case 2: json.loads(match.group(1).strip()) when the pattern matches.
StrategyFence(content) == FenceGroup(content, FenceSearch(content))

\* A depth walk that counts every brace, inside strings too.
ScanStepNoString(w, char, open, close) ==
  IF char = open THEN [w EXCEPT !.count = w.count + 1, !.hit = FALSE]
  ELSE IF char = close THEN [w EXCEPT !.count = w.count - 1, !.hit = (w.count - 1 = 0)]
  ELSE [w EXCEPT !.hit = FALSE]

\* A depth walk that tracks strings but not the backslash: an escaped quote
\* ends the string.
ScanStepNoEscape(w, char, open, close) ==
  IF char = QUOTE THEN [w EXCEPT !.in_string = ~w.in_string, !.hit = FALSE]
  ELSE IF w.in_string THEN [w EXCEPT !.hit = FALSE]
  ELSE IF char = open THEN [w EXCEPT !.count = w.count + 1, !.hit = FALSE]
  ELSE IF char = close THEN [w EXCEPT !.count = w.count - 1, !.hit = (w.count - 1 = 0)]
  ELSE [w EXCEPT !.hit = FALSE]

\* One turn of the depth walk's loop body on char, for the pair open/close.
\* w = [count, in_string, escape_next]; hit: the count came back to zero.
ScanStep(w, char, open, close) ==
  IF w.escape_next THEN [w EXCEPT !.escape_next = FALSE, !.hit = FALSE]
  ELSE IF char = BACKSLASH THEN [w EXCEPT !.escape_next = TRUE, !.hit = FALSE]
  ELSE IF char = QUOTE THEN [w EXCEPT !.in_string = ~w.in_string, !.hit = FALSE]
  ELSE IF w.in_string THEN [w EXCEPT !.hit = FALSE]
  ELSE IF char = open THEN [w EXCEPT !.count = w.count + 1, !.hit = FALSE]
  ELSE IF char = close THEN [w EXCEPT !.count = w.count - 1, !.hit = (w.count - 1 = 0)]
  ELSE [w EXCEPT !.hit = FALSE]

WalkStart == [count |-> 0, in_string |-> FALSE, escape_next |-> FALSE, hit |-> FALSE]

\* for i in range(start_idx, len(content)): the position where the count
\* comes back to zero, 0 when the loop runs off the end.
RECURSIVE WalkFrom(_, _, _, _, _)
WalkFrom(content, i, w, open, close) ==
  IF i > Len(content) THEN 0
  ELSE LET n == ScanStep(w, content[i], open, close)
       IN IF n.hit THEN i ELSE WalkFrom(content, i + 1, n, open, close)

\* json.loads(content[start_idx:i+1]) at the position where the walk stops.
SpanLoads(content, start_idx, stop) ==
  IF stop = 0 THEN NoParse ELSE TryLoads(JsonLoads(SubSeq(content, start_idx, stop)))

WalkSpan(content, start_idx, open, close) ==
  IF start_idx >= 1
  THEN SpanLoads(content, start_idx, WalkFrom(content, start_idx, WalkStart, open, close))
  ELSE NoParse

\* Case 3: the text from the first '{' to its matching '}'.
StrategyBrace(content) == WalkSpan(content, Find(content, "{"), "{", "}")

K_categories == Ords(<<"c", "a", "t", "e", "g", "o", "r", "i", "e", "s">>)

\* A case 4 that hands the parsed list back as it is.
WrapListBare(result) == result

\* The value case 4 returns for a parsed span: a list is wrapped.
WrapList(result) ==
  IF IsList(result) THEN JObject(<<[k |-> K_categories, val |-> result]>>) ELSE result

WrapParsed(r) == IF r.ok THEN Parsed(WrapList(r.val)) ELSE NoParse

\* Case 4: the text from the first '[' to its matching ']'.
StrategyBracket(content) == WrapParsed(WalkSpan(content, Find(content, "["), "[", "]"))

\* The first of two strategies that parses.
OrElse(first, second) == IF first.ok THEN first ELSE second

ReturnOrRaise(r) == IF r.ok THEN Return(r.val) ELSE Raise("AISummaryError")

ExtractStripped(content) ==
  ReturnOrRaise(OrElse(StrategyDirect(content), OrElse(StrategyFence(content),
                OrElse(StrategyBrace(content), StrategyBracket(content)))))

\* The whole function, as one operator.
ExtractJson(raw) == IF raw = <<>> THEN Raise("AISummaryError") ELSE ExtractStripped(Strip(raw))

(***************************************************************************)
(* Inputs of the extractor: json.dumps of sample objects, bare, fenced or   *)
(* inside prose, and every short text over RawAlphabet.                     *)
(***************************************************************************)
Chr(n) == CHOOSE c \in Alphabet : Ord(c) = n

RECURSIVE Concat(_)
Concat(parts) == IF parts = <<>> THEN <<>> ELSE Head(parts) \o Concat(Tail(parts))

\* json.dumps of a str: quotes, with the quote, the backslash and the newline escaped.
RECURSIVE EscapeCps(_)
EscapeCps(cps) ==
  IF cps = <<>> THEN <<>>
  ELSE (CASE Head(cps) = 34 -> <<BACKSLASH, QUOTE>>
          [] Head(cps) = 92 -> <<BACKSLASH, BACKSLASH>>
          [] Head(cps) = 10 -> <<BACKSLASH, "n">>
          [] OTHER -> <<Chr(Head(cps))>>) \o EscapeCps(Tail(cps))

DumpsStr(cps) == <<QUOTE>> \o EscapeCps(cps) \o <<QUOTE>>

RECURSIVE DecDigits(_)
DecDigits(n) == IF n < 10 THEN <<Chr(48 + n)>> ELSE DecDigits(n \div 10) \o <<Chr(48 + (n % 10))>>

\* json.dumps(x) with its default separators ", " and ": ".
RECURSIVE Dumps(_)
Dumps(x) ==
  CASE x.t = "object" ->
         <<"{">> \o Concat([k \in 1..Len(x.v) |->
                     (IF k > 1 THEN <<",", SPACE>> ELSE <<>>) \o DumpsStr(x.v[k].k) \o <<":", SPACE>> \o Dumps(x.v[k].val)])
         \o <<"}">>
    [] x.t = "array" ->
         <<"[">> \o Concat([k \in 1..Len(x.v) |-> (IF k > 1 THEN <<",", SPACE>> ELSE <<>>) \o Dumps(x.v[k])])
         \o <<"]">>
    [] x.t = "string" -> DumpsStr(x.v)
    [] x.t = "int" -> DecDigits(x.v)
    [] x.t = "true" -> <<"t", "r", "u", "e">>
    [] x.t = "null" -> <<"n", "u", "l", "l">>

MaxStrLen == 2
MaxRawLen == 4

TextsOver(chars, maxLen) == UNION {[1..n -> chars] : n \in 0..maxLen}

\* The characters the walk must not trip over inside a JSON string.
StringChars == {"{", "}", "[", "]", QUOTE, BACKSLASH, TICK}

SampleStrings == TextsOver(StringChars, MaxStrLen) \cup {FENCE, FENCE \o <<"}">>}

K_a == Ords(<<"a">>)
Obj1(key, val) == JObject(<<[k |-> key, val |-> val]>>)

SampleObjects ==
  {Obj1(K_a, JString(Ords(s))) : s \in SampleStrings}
    \cup {Obj1(Ords(s), JInt(1)) : s \in {<<"}">>, <<QUOTE, "{">>}}
    \cup {JObject(<<>>), Obj1(K_a, JInt(1)), Obj1(K_a, JArray(<<JInt(1), JString(Ords(<<"]">>))>>)),
          Obj1(K_a, Obj1(K_a, JString(Ords(<<"}">>)))),
          JObject(<<[k |-> K_a, val |-> JNull], [k |-> Ords(<<"c">>), val |-> JTrue]>>)}

\* Prose before the object: no '{' in it.
Prefixes == {<<>>, <<"a", SPACE>>, <<"[">>, <<QUOTE, SPACE>>, <<BACKSLASH>>, <<SPACE, "}">>}
Suffixes ==
  {<<>>, <<SPACE, "a">>, <<"}">>, <<"]">>, <<SPACE, "{">>, <<QUOTE>>, <<SPACE>> \o FENCE \o <<"{", "}">> \o FENCE}

Fenced(tag, body) == FENCE \o tag \o <<NEWLINE>> \o body \o <<NEWLINE>> \o FENCE

RawAlphabet == {"{", "}", "[", "]", QUOTE, BACKSLASH, "1", SPACE}

\* [kind, obj, prefix, suffix, text]: how an input was made.
Sources ==
  {[kind |-> "raw", obj |-> JNull, prefix |-> <<>>, suffix |-> <<>>, text |-> s] : s \in TextsOver(RawAlphabet, MaxRawLen)}
    \cup {[kind |-> "fenced", obj |-> x, prefix |-> <<>>, suffix |-> <<>>, text |-> Fenced(tag, Dumps(x))] :
            x \in SampleObjects, tag \in {<<>>, <<"j", "s", "o", "n">>}}
    \cup {[kind |-> "prose", obj |-> x, prefix |-> pre, suffix |-> suf, text |-> pre \o Dumps(x) \o suf] :
            x \in SampleObjects, pre \in Prefixes, suf \in Suffixes}

(***************************************************************************)
(* Python values in report_generator.py.  An evaluation gives its value,   *)
(* or the exception it raised.                                             *)
(***************************************************************************)
Value(v) == [exc |-> "none", val |-> v]
Threw(e) == [exc |-> e, val |-> <<>>]

\* Whether hash(x) works: a list or a dict cannot be a dict key.
Hashable(x) == x.t \notin {"object", "array"}

RECURSIVE Pow10(_)
Pow10(e) == IF e = 0 THEN 1 ELSE 10 * Pow10(e - 1)

\* x as a dict key or a set member: True, 1 and 1.0 are one key.
PyKey(x) ==
  CASE x.t = "true" -> JInt(1)
    [] x.t = "float" -> JInt(x.v[1] * Pow10(x.v[2]))
    [] OTHER -> x

\* Whether iter(x) works.
Iterable(x) == x.t \in {"object", "array", "string"}

\* list(x): the items of a list, the characters of a str, the keys of a dict.
Items(x) ==
  CASE x.t = "array" -> x.v
    [] x.t = "string" -> [k \in 1..Len(x.v) |-> JString(<<x.v[k]>>)]
    [] x.t = "object" -> [k \in 1..Len(x.v) |-> JString(x.v[k].k)]

\* x or d
OrDefault(x, d) == IF Truthy(x) THEN x ELSE d

\* The first exception among evaluations made in order, none when all succeed.
FirstThrown(evals) ==
  IF \E k \in 1..Len(evals) : evals[k].exc # "none"
  THEN evals[CHOOSE k \in 1..Len(evals) :
               evals[k].exc # "none" /\ \A j \in 1..(k - 1) : evals[j].exc = "none"].exc
  ELSE "none"

\* str.strip() and str.split("\n") on code points.
WhiteCps == {32, 10}

RECURSIVE LStripCps(_)
LStripCps(cps) == IF cps # <<>> /\ Head(cps) \in WhiteCps THEN LStripCps(Tail(cps)) ELSE cps

RECURSIVE RStripCps(_)
RStripCps(cps) ==
  IF cps # <<>> /\ cps[Len(cps)] \in WhiteCps THEN RStripCps(SubSeq(cps, 1, Len(cps) - 1)) ELSE cps

StripCps(cps) == RStripCps(LStripCps(cps))

RECURSIVE SplitLines(_, _)
SplitLines(cur, rest) ==
  IF rest = <<>> THEN <<cur>>
  ELSE IF Head(rest) = 10 THEN <<cur>> \o SplitLines(<<>>, Tail(rest))
  ELSE SplitLines(Append(cur, Head(rest)), Tail(rest))

\* A line of the report: what it says (kind) and the values formatted into it.
Line(kind, val) == [kind |-> kind, val |-> val]
BlankLine == Line("blank", <<>>)

K_overall == Ords(<<"o", "v", "e", "r", "a", "l", "l">>)
K_name == Ords(<<"n", "a", "m", "e">>)
K_summary == Ords(<<"s", "u", "m", "m", "a", "r", "y">>)
K_messages == Ords(<<"m", "e", "s", "s", "a", "g", "e", "s">>)

EmptyStr == JString(<<>>)
EmptyList == JArray(<<>>)

\* The name given to a category that has none (line 376).
UNNAMED == JString(<<26410, 21629, 21517, 20998, 31867>>)

\* The preview of a message without text (line 456).
MEDIA_PLACEHOLDER == <<91, 23186, 20307, 28040, 24687, 93>>

(***************************************************************************)
(* constants.py                                                            *)
(***************************************************************************)
TOP_THREAD_ID == -1
MIN_THREAD_MESSAGES == 10
DEFAULT_CATEGORY_PRIORITY == 99

\* CATEGORY_PRIORITY: the rank of the known names.  A and B stand for the
\* first two canonical names.
KnownNames == <<JString(Ords(<<"A">>)), JString(Ords(<<"B">>))>>

\* CATEGORY_PRIORITY.get(name, DEFAULT_CATEGORY_PRIORITY)
CategoryPriority(name) ==
  IF \E k \in 1..Len(KnownNames) : KnownNames[k] = name
  THEN CHOOSE k \in 1..Len(KnownNames) : KnownNames[k] = name
  ELSE DEFAULT_CATEGORY_PRIORITY

\* A sort that puts an item before the items of its rank.
InsertBeforeEquals(sorted, p) ==
  SubSeq(sorted, 1, Cardinality({k \in 1..Len(sorted) : sorted[k].rank < p.rank}))
    \o <<p>>
    \o SubSeq(sorted, Cardinality({k \in 1..Len(sorted) : sorted[k].rank < p.rank}) + 1, Len(sorted))

\* sorted(items, key=rank): pairs [rank, item], equal ranks keep their order.
InsertByRank(sorted, p) ==
  SubSeq(sorted, 1, Cardinality({k \in 1..Len(sorted) : sorted[k].rank <= p.rank}))
    \o <<p>>
    \o SubSeq(sorted, Cardinality({k \in 1..Len(sorted) : sorted[k].rank <= p.rank}) + 1, Len(sorted))

RECURSIVE SortByRank(_, _)
SortByRank(sorted, rest) ==
  IF rest = <<>> THEN sorted ELSE SortByRank(InsertByRank(sorted, Head(rest)), Tail(rest))

ItemsOf(sorted) == [k \in 1..Len(sorted) |-> sorted[k].item]

SortedItems(pairs) == ItemsOf(SortByRank(<<>>, pairs))

(***************************************************************************)
(* report_generator.py: rows, threads, messages                            *)
(*                                                                         *)
(* A row is [message_id, thread_id, reply_to, text]; reply_to is NoReply   *)
(* for a row that answers nothing.  The store is the set of message ids    *)
(* get_replied_message finds.                                              *)
(***************************************************************************)
NoReply == 0

\* A grouping that starts the list of a thread anew with each of its rows.
AddToThreadOverwrite(threads, row) ==
  IF \E k \in 1..Len(threads) : threads[k].tid = row.thread_id
  THEN [k \in 1..Len(threads) |->
          IF threads[k].tid = row.thread_id
          THEN [threads[k] EXCEPT !.rows = <<row>>]
          ELSE threads[k]]
  ELSE Append(threads, [tid |-> row.thread_id, rows |-> <<row>>])

\* _group_messages_by_thread: a dict, as its items [tid, rows] in insertion order.
AddToThread(threads, row) ==
  IF \E k \in 1..Len(threads) : threads[k].tid = row.thread_id
  THEN [k \in 1..Len(threads) |->
          IF threads[k].tid = row.thread_id
          THEN [threads[k] EXCEPT !.rows = Append(@, row)]
          ELSE threads[k]]
  ELSE Append(threads, [tid |-> row.thread_id, rows |-> <<row>>])

RECURSIVE GroupInto(_, _)
GroupInto(threads, rest) ==
  IF rest = <<>> THEN threads ELSE GroupInto(AddToThread(threads, Head(rest)), Tail(rest))

GroupMessagesByThread(rs) == GroupInto(<<>>, rs)

\* A filter that wants more than threshold rows.
EnoughRowsMore(t, threshold) == Len(t.rows) > threshold

\* Line 704: the threads that have at least threshold rows.
EnoughRows(t, threshold) == Len(t.rows) >= threshold

ValidThreads(threads, threshold) == SelectSeq(threads, LAMBDA t : EnoughRows(t, threshold))

\* Line 725: sorted(..., key=len, reverse=True); equal lengths keep their order.
ByLengthDesc(threads) ==
  SortedItems([k \in 1..Len(threads) |-> [rank |-> 0 - Len(threads[k].rows), item |-> threads[k]]])

\* Line 698.
Threshold(min_thread_messages) ==
  IF min_thread_messages.given THEN min_thread_messages.n ELSE MIN_THREAD_MESSAGES

\* A conversion that keeps a row whatever it answers.
RowKeptAlways(row, store) == TRUE

\* _convert_rows_to_messages: a row whose reply target is not in the store is skipped.
RowKept(row, store) == row.reply_to = NoReply \/ row.reply_to \in store

MessageOf(row) == [id |-> row.message_id, reply_to |-> row.reply_to, text |-> row.text]

ConvertRowsToMessages(rs, store) ==
  [k \in 1..Len(SelectSeq(rs, LAMBDA r : RowKept(r, store))) |->
     MessageOf(SelectSeq(rs, LAMBDA r : RowKept(r, store))[k])]

\* _build_ai_payload: the fields of the request that depend on the thread.
NoBatchInfo == [given |-> FALSE, batch_num |-> 0, num_batches |-> 0, total_messages |-> 0]

BatchInfo(batch_num, num_batches, total_messages) ==
  [given |-> TRUE, batch_num |-> batch_num, num_batches |-> num_batches, total_messages |-> total_messages]

BuildAiPayload(thread_id, messages, batch_info) ==
  [thread_id |-> thread_id, messages |-> messages, batch_info |-> batch_info]

\* Lines 716-722: message_id -> text, over the rows of the report.
MessageMapHas(rs, id) == \E k \in 1..Len(rs) : rs[k].message_id = id

MessageMapText(rs, id) ==
  rs[CHOOSE k \in 1..Len(rs) : rs[k].message_id = id /\ \A j \in (k + 1)..Len(rs) : rs[j].message_id # id].text

(***************************************************************************)
(* report_generator.py: categories                                         *)
(***************************************************************************)
\* get_priority of _sort_categories_by_priority (lines 357-359).
NameOrEmpty(cat) == IF HasKey(cat, K_name) THEN DictGet(cat, K_name) ELSE EmptyStr

PriorityKey(cat) ==
  IF ~IsDict(cat) THEN Threw("AttributeError")
  ELSE IF ~Hashable(NameOrEmpty(cat)) THEN Threw("TypeError")
  ELSE Value(CategoryPriority(NameOrEmpty(cat)))

SortWithKeys(cats, keys) ==
  IF FirstThrown(keys) # "none" THEN Threw(FirstThrown(keys))
  ELSE Value(SortedItems([k \in 1..Len(cats) |-> [rank |-> keys[k].val, item |-> cats[k]]]))

SortItemsByPriority(cats) == SortWithKeys(cats, [k \in 1..Len(cats) |-> PriorityKey(cats[k])])

\* _sort_categories_by_priority(categories) for the value of data["categories"].
SortCategoriesByPriority(categories) ==
  IF ~Iterable(categories) THEN Threw("TypeError") ELSE SortItemsByPriority(Items(categories))

\* _merge_categories: category_map as its items [name, message_ids, summaries]
\* in insertion order.
CatName(cat) == OrDefault(DictGet(cat, K_name), UNNAMED)
CatSummary(cat) == OrDefault(DictGet(cat, K_summary), EmptyStr)
CatMessages(cat) == OrDefault(DictGet(cat, K_messages), EmptyList)

WithName(category_map, name) ==
  IF \E k \in 1..Len(category_map) : PyKey(category_map[k].name) = PyKey(name)
  THEN category_map
  ELSE Append(category_map, [name |-> name, message_ids |-> <<>>, summaries |-> <<>>])

\* Lines 380-385 for one category.
Collect(category_map, name, summary, msg_ids) ==
  [k \in 1..Len(category_map) |->
     IF PyKey(category_map[k].name) = PyKey(name)
     THEN [name |-> category_map[k].name,
           message_ids |-> category_map[k].message_ids \o msg_ids,
           summaries |-> IF Truthy(summary)
                         THEN Append(category_map[k].summaries, summary)
                         ELSE category_map[k].summaries]
     ELSE category_map[k]]

RECURSIVE MergeLoop(_, _)
MergeLoop(category_map, cats) ==
  IF cats = <<>> THEN Value(category_map)
  ELSE IF ~IsDict(Head(cats)) THEN Threw("AttributeError")
  ELSE IF ~Hashable(CatName(Head(cats))) THEN Threw("TypeError")
  ELSE IF ~Iterable(CatMessages(Head(cats))) THEN Threw("TypeError")
  ELSE MergeLoop(Collect(WithName(category_map, CatName(Head(cats))), CatName(Head(cats)),
                         CatSummary(Head(cats)), Items(CatMessages(Head(cats)))),
                 Tail(cats))

\* A merge that keeps every id, repeated or not.
KeepAll(seen, rest) == seen \o rest

\* list(dict.fromkeys(ids)): the first occurrence of each id, in order.
RECURSIVE KeepFirst(_, _)
KeepFirst(seen, rest) ==
  IF rest = <<>> THEN seen
  ELSE KeepFirst(IF \E k \in 1..Len(seen) : PyKey(seen[k]) = PyKey(Head(rest))
                 THEN seen ELSE Append(seen, Head(rest)),
                 Tail(rest))

AllHashable(ids) == \A k \in 1..Len(ids) : Hashable(ids[k])

\* Lines 388-389.
DedupeIds(m) ==
  IF m.exc # "none" THEN m
  ELSE IF \E k \in 1..Len(m.val) : ~AllHashable(m.val[k].message_ids) THEN Threw("TypeError")
  ELSE Value([k \in 1..Len(m.val) |-> [m.val[k] EXCEPT !.message_ids = KeepFirst(<<>>, @)]])

MergeCategories(categories_list) == DedupeIds(MergeLoop(<<>>, categories_list))

\* " | ".join(summaries)
RECURSIVE JoinSummaries(_)
JoinSummaries(summaries) ==
  IF Len(summaries) = 1 THEN Head(summaries).v
  ELSE Head(summaries).v \o <<32, 124, 32>> \o JoinSummaries(Tail(summaries))

\* A text taken from summaries[0] without the test of line 432.
CombinedSummaryUnguarded(summaries, is_batch) ==
  IF summaries = <<>> THEN Threw("IndexError")
  ELSE IF is_batch /\ Len(summaries) > 1 THEN Value(JoinSummaries(summaries))
  ELSE Value(summaries[1].v)

\* Lines 432-437: the text shown for a category, empty when it has no summary.
CombinedSummary(summaries, is_batch) ==
  IF summaries = <<>> THEN Value(<<>>)
  ELSE IF is_batch /\ Len(summaries) > 1
  THEN IF \E k \in 1..Len(summaries) : summaries[k].t # "string"
       THEN Threw("TypeError")
       ELSE Value(JoinSummaries(summaries))
  ELSE IF summaries[1].t # "string" THEN Threw("AttributeError")
  ELSE Value(summaries[1].v)

NotBlank(cps) == StripCps(cps) # <<>>

\* Lines 439-442.
SummaryLines(cps) ==
  IF cps = <<>> THEN <<>>
  ELSE [k \in 1..Len(SelectSeq(SplitLines(<<>>, cps), NotBlank)) |->
          Line("summary", SelectSeq(SplitLines(<<>>, cps), NotBlank)[k])]

\* Lines 431-442 for one category.
CategoryLines(entry, text) == <<Line("category", entry.name)>> \o SummaryLines(text.val)

PREVIEW_CHARS == 50

\* Line 454: ']' and ')' get a backslash.
RECURSIVE EscapeLinkText(_)
EscapeLinkText(cps) ==
  IF cps = <<>> THEN <<>>
  ELSE (IF Head(cps) \in {93, 41} THEN <<92, Head(cps)>> ELSE <<Head(cps)>>) \o EscapeLinkText(Tail(cps))

\* Lines 450-456, for the stripped text of a message.
Preview(text) ==
  IF text = <<>> THEN MEDIA_PLACEHOLDER
  ELSE EscapeLinkText(IF Len(text) > PREVIEW_CHARS
                      THEN SubSeq(text, 1, PREVIEW_CHARS) \o <<46, 46, 46>>
                      ELSE text)

\* msg_id in message_map, for a JSON value msg_id and int keys.
InMessageMap(rs, msg_id) == PyKey(msg_id).t = "int" /\ MessageMapHas(rs, PyKey(msg_id).v)

\* Lines 446-460: (msg_id, display_text).
MessageRef(rs, msg_id) ==
  [id |-> msg_id,
   text |-> IF InMessageMap(rs, msg_id)
            THEN Preview(StripCps(MessageMapText(rs, PyKey(msg_id).v)))
            ELSE <<>>]

RefsOf(rs, message_ids) == [k \in 1..Len(message_ids) |-> MessageRef(rs, message_ids[k])]

RECURSIVE AllMessageRefs(_, _)
AllMessageRefs(rs, sorted) ==
  IF sorted = <<>> THEN <<>>
  ELSE RefsOf(rs, Head(sorted).message_ids) \o AllMessageRefs(rs, Tail(sorted))

\* A list that keeps every reference, repeated or not.
EveryRef(seen, rest) == seen \o rest

\* Lines 467-472: the first reference to each id.
RECURSIVE UniqueRefs(_, _)
UniqueRefs(seen, rest) ==
  IF rest = <<>> THEN seen
  ELSE UniqueRefs(IF \E k \in 1..Len(seen) : PyKey(seen[k].id) = PyKey(Head(rest).id)
                  THEN seen ELSE Append(seen, Head(rest)),
                  Tail(rest))

\* Lines 463-486.
RefLines(unique_refs, chat_link) ==
  IF unique_refs = <<>> THEN <<>>
  ELSE <<Line("refs_title", <<>>), BlankLine>>
         \o [k \in 1..Len(unique_refs) |->
               Line("ref", [idx |-> k, id |-> unique_refs[k].id, text |-> unique_refs[k].text,
                            linked |-> chat_link])]

RECURSIVE AllCategoryLines(_, _)
AllCategoryLines(sorted, texts) ==
  IF sorted = <<>> THEN <<>>
  ELSE CategoryLines(Head(sorted), Head(texts)) \o AllCategoryLines(Tail(sorted), Tail(texts))

FormatSorted(sorted, texts, is_batch, chat_link, rs) ==
  IF FirstThrown(texts) # "none" THEN Threw(FirstThrown(texts))
  ELSE Value(<<Line("categories_title", is_batch)>>
               \o AllCategoryLines(sorted, texts)
               \o RefLines(UniqueRefs(<<>>, AllMessageRefs(rs, sorted)), chat_link))

FormatByName(sorted, is_batch, chat_link, rs) ==
  FormatSorted(sorted, [k \in 1..Len(sorted) |-> CombinedSummary(sorted[k].summaries, is_batch)],
               is_batch, chat_link, rs)

\* _format_category_output(category_map, is_batch, chat_link, message_map)
FormatCategoryOutput(category_map, is_batch, chat_link, rs) ==
  FormatByName(SortedItems([k \in 1..Len(category_map) |->
                 [rank |-> CategoryPriority(category_map[k].name), item |-> category_map[k]]]),
               is_batch, chat_link, rs)

\* Merge, then format: an exception of the merge goes through.
FormatMerged(m, is_batch, chat_link, rs) ==
  IF m.exc # "none" THEN m ELSE FormatCategoryOutput(m.val, is_batch, chat_link, rs)

(***************************************************************************)
(* ai_client.py: call_chat_analysis.  A response is what httpx.post did:   *)
(*   timeout    a timeout exception (lines 323-330)                        *)
(*   error      any other exception of the request (331-332)               *)
(*   status     a status code >= 400 (336-337)                             *)
(*   badbody    a body that is not JSON (339-342)                          *)
(*   nocontent  no choices, or a missing, null or empty content (344-353)  *)
(*   parts      a content that is a non-empty list, not a str              *)
(*   number     a content that is a number other than zero                 *)
(*   text       a content that is the str `text`                           *)
(***************************************************************************)
CallReturn(val) == [kind |-> "return", val |-> val, exc |-> "none", msg |-> "none"]
CallRaise(exc, msg) == [kind |-> "raise", val |-> JNull, exc |-> exc, msg |-> msg]

\* Lines 355-361 for a str content.
AfterExtract(r) ==
  IF r.kind = "return" THEN CallReturn(r.val) ELSE CallRaise("AISummaryError", "no valid JSON in content")

CallChatAnalysis(resp) ==
  CASE resp.kind = "timeout" -> CallRaise("AISummaryError", "request timed out")
    [] resp.kind = "error" -> CallRaise("AISummaryError", "request failed")
    [] resp.kind = "status" -> CallRaise("AISummaryError", "bad status")
    [] resp.kind = "badbody" -> CallRaise("AISummaryError", "invalid JSON response")
    [] resp.kind = "nocontent" -> CallRaise("AISummaryError", "no content returned from model")
    [] resp.kind = "parts" -> CallRaise("AISummaryError", "error while parsing JSON")
    [] resp.kind = "number" -> CallRaise("TypeError", "not subscriptable")
    [] resp.kind = "text" ->
         IF resp.text = <<>>
         THEN CallRaise("AISummaryError", "no content returned from model")
         ELSE AfterExtract(ExtractJson(resp.text))

Response(kind) == [kind |-> kind, text |-> <<>>]
TextResponse(text) == [kind |-> "text", text |-> text]

\* What the model may answer.
Field(key, val) == [k |-> key, val |-> val]

GoodCategory(name, ids) ==
  JObject(<<Field(K_name, JString(Ords(name))), Field(K_summary, JString(Ords(<<"s">>))),
            Field(K_messages, JArray(ids))>>)

ReplyFull ==
  JObject(<<Field(K_overall, JString(Ords(<<"o">>))),
            Field(K_categories, JArray(<<GoodCategory(<<"A">>, <<JInt(1), JInt(2)>>)>>))>>)

ReplyEmpty == JObject(<<Field(K_overall, EmptyStr), Field(K_categories, EmptyList)>>)

ReplyList == JArray(<<JInt(1), JInt(2)>>)

ReplyBadCategory == JObject(<<Field(K_categories, JArray(<<JInt(1)>>))>>)

ReplyNumberCategories == JObject(<<Field(K_categories, JInt(1))>>)

Responses ==
  {Response(k) : k \in {"timeout", "error", "status", "badbody", "nocontent", "number"}}
    \cup {TextResponse(Dumps(v)) :
            v \in {ReplyFull, ReplyEmpty, ReplyList, ReplyBadCategory, ReplyNumberCategories}}
    \cup {TextResponse(<<"n", "o", SPACE, "j", "s", "o", "n">>)}

\* The outcome of the call for each response.
Service == [resp \in Responses |-> CallChatAnalysis(resp)]

(***************************************************************************)
(* report_generator.py: _process_single_thread, lines 543-555 for data     *)
(***************************************************************************)
OverallLines(overall) == IF Truthy(overall) THEN <<Line("overall", overall)>> ELSE <<>>

SortedThenMerged(sorted) == IF sorted.exc # "none" THEN sorted ELSE MergeCategories(sorted.val)

SingleCategoryLines(categories, chat_link, rs) ==
  IF Truthy(categories)
  THEN FormatMerged(SortedThenMerged(SortCategoriesByPriority(categories)), FALSE, chat_link, rs)
  ELSE Value(<<Line("no_categories", <<>>)>>)

Prepend(head, rest) == IF rest.exc # "none" THEN rest ELSE Value(head \o rest.val)

SingleDataLines(data, chat_link, rs) ==
  IF ~IsDict(data) THEN Threw("AttributeError")
  ELSE Prepend(OverallLines(DictGet(data, K_overall)),
               SingleCategoryLines(OrDefault(DictGet(data, K_categories), EmptyList), chat_link, rs))

\* Lines 534-555 for the outcome of the call.
SingleThreadLines(out, chat_link, rs) ==
  IF out.kind = "raise"
  THEN IF out.exc = "AISummaryError" THEN Value(<<Line("thread_failed", out.msg)>>) ELSE Threw(out.exc)
  ELSE SingleDataLines(out.val, chat_link, rs)

(***************************************************************************)
(* report_generator.py: _process_thread_batch                              *)
(***************************************************************************)
Min(a, b) == IF a <= b THEN a ELSE b

\* Line 590.
NumBatches(total_messages, max_batch) == (total_messages + max_batch - 1) \div max_batch

\* A start that steps one row short of the batch size.
BatchStartOverlap(idx, max_batch) == idx * (max_batch - 1)

\* Lines 603-605: thread_rows[start_idx:end_idx] of batch batch_idx (from 0).
BatchStart(idx, max_batch) == idx * max_batch
BatchEnd(idx, max_batch, total_messages) == Min(BatchStart(idx, max_batch) + max_batch, total_messages)

BatchRows(thread_rows, idx, max_batch) ==
  SubSeq(thread_rows, BatchStart(idx, max_batch) + 1, BatchEnd(idx, max_batch, Len(thread_rows)))

\* Lines 653-656.
MergedOverallLines(overalls) ==
  IF overalls = <<>> THEN <<>>
  ELSE <<Line("overalls_title", <<>>)>>
         \o [k \in 1..Len(overalls) |-> Line("batch_overall", overalls[k])]

\* Lines 658-661.
MergedCategoryLines(categories, chat_link, rs) ==
  IF categories = <<>> THEN Value(<<>>)
  ELSE Prepend(<<BlankLine>>, FormatMerged(MergeCategories(categories), TRUE, chat_link, rs))

\* Lines 650-661: the lines that follow the batches' own.
MergeLines(failed, overalls, categories, chat_link, rs) ==
  IF failed /\ overalls = <<>> /\ categories = <<>>
  THEN Value(<<Line("all_failed", <<>>)>>)
  ELSE Prepend(MergedOverallLines(overalls), MergedCategoryLines(categories, chat_link, rs))

(***************************************************************************)
(* Inputs of build_ai_summary_section                                      *)
(***************************************************************************)
MaxRows == 3
MaxBatchSize == 2
MaxThreshold == 2

\* The message every reply of the report answers: older than the report's rows.
ReplyTargets == {1}

RowText(id) == IF id % 2 = 0 THEN Ords(<<"a", "]">>) ELSE <<>>

\* The k-th row of the report; thread_id is reply_to, or TOP_THREAD_ID for a
\* row that answers nothing (database.py).
RowAt(k, reply_to) ==
  [message_id |-> k + 1,
   thread_id |-> IF reply_to = NoReply THEN TOP_THREAD_ID ELSE reply_to,
   reply_to |-> reply_to,
   text |-> RowText(k + 1)]

RowsOf(replies) == [k \in 1..Len(replies) |-> RowAt(k, replies[k])]

RowSeqs == {RowsOf(r) : r \in UNION {[1..n -> {NoReply} \cup ReplyTargets] : n \in 0..MaxRows}}

IdsOf(rs) == {rs[k].message_id : k \in 1..Len(rs)}

\* cfg: at most one of the three settings is off or missing.
Configs ==
  {c \in [enable_ai_summary : BOOLEAN, ai_api_base : BOOLEAN, ai_api_key : BOOLEAN,
          ai_max_messages_per_batch : 1..MaxBatchSize] :
     Cardinality({f \in {"enable_ai_summary", "ai_api_base", "ai_api_key"} : ~c[f]}) <= 1}

\* conn: missing, or a store that holds the rows of the report and maybe the
\* older messages they answer.
Conns(rs) ==
  {[given |-> g, ids |-> IdsOf(rs) \cup old] : g \in BOOLEAN, old \in SUBSET ReplyTargets}

ThresholdChoices ==
  {[given |-> FALSE, n |-> 0]} \cup {[given |-> TRUE, n |-> n] : n \in 1..MaxThreshold}

(***************************************************************************)
(* State                                                                   *)
(***************************************************************************)
VARIABLES
  src,          \* how the extractor's input was made (an element of Sources)
  content,      \* _extract_json_from_content: the parameter, stripped at line 39
  pc,           \* where the extractor stands
  tried,        \* the strategies entered so far, in order
  start_idx,    \* lines 60, 98
  i,            \* the loop index of the walk
  walk,         \* brace_count / bracket_count, in_string, escape_next
  result        \* what the extractor returned or raised

extractVars == <<src, content, pc, tried, start_idx, i, walk, result>>

VARIABLES
  rows,                 \* build_ai_summary_section: the rows of the report
  conn,                 \* the store, when given
  cfg,                  \* the settings build_ai_summary_section reads
  min_thread_messages,  \* the chat's own threshold, when given
  chat_link,            \* whether a link prefix is given
  ppc,                  \* where build_ai_summary_section stands
  queue,                \* the eligible threads not yet processed, in order
  lines,                \* the lines of the section so far
  thread,               \* the thread being processed: [tid, rows]
  batch_idx,            \* _process_thread_batch: the loop index
  num_batches,          \* line 590
  all_overalls,         \* line 597
  all_categories,       \* line 598
  batch_failed,         \* line 599
  batch_lines,          \* the lines of _process_thread_batch
  calls,                \* every call of call_chat_analysis made, with its response
  raised                \* the exception that left build_ai_summary_section

inputVars == <<rows, conn, cfg, min_thread_messages, chat_link>>
batchVars == <<batch_idx, num_batches, all_overalls, all_categories, batch_failed, batch_lines>>
reportVars == <<inputVars, ppc, queue, lines, thread, batchVars, calls, raised>>

VARIABLES
  cat_input,     \* the categories handed to the merge: data["categories"] or all_categories
  cat_is_batch,  \* is_batch: whether they come from the batches of a split thread
  cat_pc,        \* where the handling of the categories stands
  cat_list,      \* _merge_categories: categories_list
  cat_idx,       \* the position of the loop of line 375 in categories_list
  cat_map,       \* category_map, as its items in insertion order
  cat_lines,     \* the lines _format_category_output returned
  cat_raised     \* the exception that left the handling

catVars == <<cat_input, cat_is_batch, cat_pc, cat_list, cat_idx, cat_map, cat_lines, cat_raised>>

VARIABLES
  grp_rows,      \* _group_messages_by_thread: rows
  grp_pc,        \* where the grouping stands
  grp_idx,       \* the position of the loop of line 235 in rows
  grp_threads    \* threads, as its items [tid, rows] in insertion order

groupVars == <<grp_rows, grp_pc, grp_idx, grp_threads>>

VARIABLES
  db_pc,         \* where the run of the program stands in ensure_db and after it
  db_table,      \* whether the table messages exists
  db_thread_col, \* whether the table has the column thread_id
  db_rows,       \* the committed rows of the table: [message_id, reply_to, thread_id]
  db_written     \* the message ids fetch_incremental wrote in the runs so far

storeVars == <<db_pc, db_table, db_thread_col, db_rows, db_written>>

VARIABLES
  st_pc,           \* where _calculate_statistics and _build_report_content stand
  st_user_stats,   \* user_stats, as its items [key, cnt] in insertion order
  st_media_stats,  \* media_stats, likewise
  st_thread_stats, \* thread_stats, likewise
  st_top_n,        \* [users, threads]: TOP_N_USERS and TOP_N_THREADS
  st_top_users,    \* line 102
  st_top_threads,  \* line 103
  st_first         \* [users, threads]: the keys in the order the rows first showed them

statVars == <<st_pc, st_user_stats, st_media_stats, st_thread_stats, st_top_n,
              st_top_users, st_top_threads, st_first>>

VARIABLES
  pv_pc,         \* where the making of the previews stands
  pv_text,       \* the text column of the message that is shown
  pv_ref,        \* display_text of _format_category_output (lines 447-456)
  pv_thread      \* preview of _build_report_content (lines 128-134)

previewVars == <<pv_pc, pv_text, pv_ref, pv_thread>>

VARIABLES
  pull_pc,       \* where fetch_incremental stands
  pull_file,     \* the number in the file at cfg.last_id_path
  pull_last_id,  \* fetch_incremental: last_id
  pull_max_id,   \* fetch_incremental: max_id
  pull_feed,     \* the messages iter_messages has still to give, oldest first
  pull_tx,       \* the message ids inserted and not yet committed
  pull_stored,   \* the message ids of the committed rows
  pull_handled,  \* the message ids the loop has inserted in any run
  pull_given     \* the message ids iter_messages has given in this run

pullVars == <<pull_pc, pull_file, pull_last_id, pull_max_id, pull_feed, pull_tx,
              pull_stored, pull_handled, pull_given>>

VARIABLES
  cv_rows,       \* _convert_rows_to_messages: rows
  cv_store,      \* the message ids get_replied_message finds for the chat
  cv_pc,         \* where the conversion stands
  cv_idx,        \* the position of the loop of line 263 in rows
  cv_messages    \* messages

convertVars == <<cv_rows, cv_store, cv_pc, cv_idx, cv_messages>>

restVars == <<statVars, previewVars, pullVars, convertVars>>

\* The state of the functions that are checked on their own.
unitVars == <<catVars, groupVars, storeVars, restVars>>

vars == <<extractVars, reportVars, unitVars>>

NoThread == [tid |-> TOP_THREAD_ID, rows |-> <<>>]

\* The report generator at rest.
ReportIdle ==
  /\ rows = <<>>
  /\ conn = [given |-> FALSE, ids |-> {}]
  /\ cfg = [enable_ai_summary |-> FALSE, ai_api_base |-> FALSE, ai_api_key |-> FALSE,
            ai_max_messages_per_batch |-> 1]
  /\ min_thread_messages = [given |-> FALSE, n |-> 0]
  /\ chat_link = FALSE
  /\ ppc = "idle"
  /\ queue = <<>>
  /\ lines = <<>>
  /\ thread = NoThread
  /\ batch_idx = 0
  /\ num_batches = 0
  /\ all_overalls = <<>>
  /\ all_categories = <<>>
  /\ batch_failed = FALSE
  /\ batch_lines = <<>>
  /\ calls = <<>>
  /\ raised = "none"

\* The handling of categories, the grouping and the store at rest.
CatIdle ==
  /\ cat_input = <<>>
  /\ cat_is_batch = FALSE
  /\ cat_pc = "idle"
  /\ cat_list = <<>>
  /\ cat_idx = 0
  /\ cat_map = <<>>
  /\ cat_lines = <<>>
  /\ cat_raised = "none"

GroupIdle ==
  /\ grp_rows = <<>>
  /\ grp_pc = "idle"
  /\ grp_idx = 0
  /\ grp_threads = <<>>

StoreIdle ==
  /\ db_pc = "idle"
  /\ db_table = FALSE
  /\ db_thread_col = FALSE
  /\ db_rows = {}
  /\ db_written = {}

NoTopN == [users |-> 0, threads |-> 0]
NoneFirst == [users |-> <<>>, threads |-> <<>>]

StatIdle ==
  /\ st_pc = "idle"
  /\ st_user_stats = <<>>
  /\ st_media_stats = <<>>
  /\ st_thread_stats = <<>>
  /\ st_top_n = NoTopN
  /\ st_top_users = <<>>
  /\ st_top_threads = <<>>
  /\ st_first = NoneFirst

PreviewIdle ==
  /\ pv_pc = "idle"
  /\ pv_text = <<>>
  /\ pv_ref = <<>>
  /\ pv_thread = <<>>

PullIdle ==
  /\ pull_pc = "idle"
  /\ pull_file = 0
  /\ pull_last_id = 0
  /\ pull_max_id = 0
  /\ pull_feed = <<>>
  /\ pull_tx = {}
  /\ pull_stored = {}
  /\ pull_handled = {}
  /\ pull_given = {}

ConvertIdle ==
  /\ cv_rows = <<>>
  /\ cv_store = {}
  /\ cv_pc = "idle"
  /\ cv_idx = 0
  /\ cv_messages = <<>>

RestIdle == StatIdle /\ PreviewIdle /\ PullIdle /\ ConvertIdle

UnitsIdle == CatIdle /\ GroupIdle /\ StoreIdle /\ RestIdle

\* The extractor at rest.
ExtractIdle ==
  /\ src = [kind |-> "raw", obj |-> JNull, prefix |-> <<>>, suffix |-> <<>>, text |-> <<>>]
  /\ content = <<>>
  /\ pc = "idle"
  /\ tried = <<>>
  /\ start_idx = 0
  /\ i = 0
  /\ walk = WalkStart
  /\ result = Pending

ExtractInit ==
  /\ src \in Sources
  /\ content = src.text
  /\ pc = "case0"
  /\ tried = <<>>
  /\ start_idx = 0
  /\ i = 0
  /\ walk = WalkStart
  /\ result = Pending
  /\ ReportIdle
  /\ UnitsIdle

\* An extractor that walks the braces before it looks for a fenced block.
NextStrategyBraceFirst(name) ==
  CASE name = "direct" -> "brace"
    [] name = "brace" -> "fence"
    [] name = "fence" -> "bracket"
    [] name = "bracket" -> "fail"

\* An extractor that stops at a brace walk that found no value.
NextStrategyBraceLast(name) ==
  CASE name = "direct" -> "fence"
    [] name = "fence" -> "brace"
    [] name = "brace" -> "fail"
    [] name = "bracket" -> "fail"

\* The strategy tried after one that did not parse (lines 45, 56, 94, 136).
NextStrategy(name) ==
  CASE name = "direct" -> "fence"
    [] name = "fence" -> "brace"
    [] name = "brace" -> "bracket"
    [] name = "bracket" -> "fail"

\* An extractor without lines 138-141: the last strategy's decode error leaves
\* the function.
GiveUpDecodeError(name) ==
  IF NextStrategy(name) = "fail"
  THEN /\ pc' = "done"
       /\ result' = Raise("JSONDecodeError")
  ELSE /\ pc' = NextStrategy(name)
       /\ result' = result

\* Leave strategy `name` without a value: go on to the next one, or raise.
GiveUp(name) ==
  IF NextStrategy(name) = "fail"
  THEN /\ pc' = "done"
       /\ result' = Raise("AISummaryError")
  ELSE /\ pc' = NextStrategy(name)
       /\ result' = result

\* Lines 35-39.
ExtractCase0 ==
  /\ pc = "case0"
  /\ IF content = <<>>
     THEN /\ result' = Raise("AISummaryError")
          /\ pc' = "done"
          /\ content' = content
     ELSE /\ content' = Strip(content)
          /\ pc' = "direct"
          /\ result' = result
  /\ UNCHANGED <<reportVars, unitVars, src, tried, start_idx, i, walk>>

\* A strategy's attempt r ends the call with its value, or gives way.
Conclude(name, r) ==
  IF r.ok
  THEN /\ result' = Return(r.val)
       /\ pc' = "done"
  ELSE GiveUp(name)

\* Lines 41-45.
ExtractDirect ==
  /\ pc = "direct"
  /\ tried' = Append(tried, "direct")
  /\ Conclude("direct", StrategyDirect(content))
  /\ UNCHANGED <<reportVars, unitVars, src, content, start_idx, i, walk>>

\* Lines 47-56.
ExtractFence ==
  /\ pc = "fence"
  /\ tried' = Append(tried, "fence")
  /\ Conclude("fence", StrategyFence(content))
  /\ UNCHANGED <<reportVars, unitVars, src, content, start_idx, i, walk>>

\* Lines 60-64 and 98-102: find the opening character, reset the walk.
WalkBegin(name, open) ==
  /\ pc = name
  /\ tried' = Append(tried, name)
  /\ start_idx' = Find(content, open)
  /\ IF Find(content, open) >= 1
     THEN /\ i' = Find(content, open)
          /\ walk' = WalkStart
          /\ pc' = IF name = "brace" THEN "brace_walk" ELSE "bracket_walk"
          /\ result' = result
     ELSE /\ GiveUp(name)
          /\ UNCHANGED <<i, walk>>
  /\ UNCHANGED <<reportVars, unitVars, src, content>>

\* The loop body: n is the walk after this character.
WalkChar(name, n) ==
  /\ walk' = n
  /\ IF ~n.hit
     THEN /\ i' = i + 1
          /\ UNCHANGED <<pc, result>>
     ELSE /\ i' = i
          /\ Conclude(name, IF name = "bracket"
                            THEN WrapParsed(SpanLoads(content, start_idx, i))
                            ELSE SpanLoads(content, start_idx, i))

\* Lines 66-94 and 104-136: one turn of the loop.  The span is parsed when
\* the count comes back to zero; a span that does not parse ends the loop.
WalkTurn(name, open, close) ==
  /\ pc = IF name = "brace" THEN "brace_walk" ELSE "bracket_walk"
  /\ IF i > Len(content)
     THEN /\ GiveUp(name)
          /\ UNCHANGED <<i, walk>>
     ELSE WalkChar(name, ScanStep(walk, content[i], open, close))
  /\ UNCHANGED <<reportVars, unitVars, src, content, tried, start_idx>>

ExtractBraceBegin == WalkBegin("brace", "{")
ExtractBraceTurn == WalkTurn("brace", "{", "}")
ExtractBracketBegin == WalkBegin("bracket", "[")
ExtractBracketTurn == WalkTurn("bracket", "[", "]")

ExtractNext ==
  \/ ExtractCase0
  \/ ExtractDirect
  \/ ExtractFence
  \/ ExtractBraceBegin
  \/ ExtractBraceTurn
  \/ ExtractBracketBegin
  \/ ExtractBracketTurn

SpecExtract == ExtractInit /\ [][ExtractNext]_vars

\* The stepwise extractor ends where the one-operator form says.
ExtractAgrees == pc = "done" => result = ExtractJson(src.text)

(***************************************************************************)
(* build_ai_summary_section, step by step                                  *)
(***************************************************************************)
ReportInit ==
  /\ rows \in RowSeqs
  /\ conn \in Conns(rows)
  /\ cfg \in Configs
  /\ min_thread_messages \in ThresholdChoices
  /\ chat_link \in BOOLEAN
  /\ ppc = "start"
  /\ queue = <<>>
  /\ lines = <<>>
  /\ thread = NoThread
  /\ batch_idx = 0
  /\ num_batches = 0
  /\ all_overalls = <<>>
  /\ all_categories = <<>>
  /\ batch_failed = FALSE
  /\ batch_lines = <<>>
  /\ calls = <<>>
  /\ raised = "none"
  /\ ExtractIdle
  /\ UnitsIdle

\* Line 680.
SectionHead == <<BlankLine, Line("section_title", <<>>)>>

\* return lines, before any thread is looked at.
EarlyReturn(ls) ==
  /\ lines' = ls
  /\ ppc' = "done"
  /\ queue' = queue

\* Lines 706-725 for the eligible threads.
StartThreads(valid, threshold) ==
  IF valid = <<>>
  THEN EarlyReturn(SectionHead \o <<Line("no_valid_threads", threshold)>>)
  ELSE /\ lines' = SectionHead \o <<Line("thread_count", <<Len(valid), threshold>>), BlankLine>>
       /\ queue' = ByLengthDesc(valid)
       /\ ppc' = "thread"

\* Lines 677-725, up to the loop over the threads.
SectionStart ==
  /\ ppc = "start"
  /\ IF ~cfg.enable_ai_summary THEN EarlyReturn(<<>>)
     ELSE IF ~cfg.ai_api_base THEN EarlyReturn(SectionHead \o <<Line("no_api_base", <<>>)>>)
     ELSE IF ~cfg.ai_api_key THEN EarlyReturn(SectionHead \o <<Line("no_api_key", <<>>)>>)
     ELSE IF ~conn.given THEN EarlyReturn(SectionHead \o <<Line("no_conn", <<>>)>>)
     ELSE StartThreads(ValidThreads(GroupMessagesByThread(rows), Threshold(min_thread_messages)),
                       Threshold(min_thread_messages))
  /\ UNCHANGED <<extractVars, unitVars, inputVars, thread, batchVars, calls, raised>>

\* A test that also splits a thread of exactly max_batch rows.
NeedsBatchesFromEqual(total_messages, max_batch) == total_messages >= max_batch

\* Line 731: total_messages > cfg.ai_max_messages_per_batch.
NeedsBatches(total_messages, max_batch) == total_messages > max_batch

\* Lines 726-731 and, for a thread that is split, 588-599.
ThreadBegin ==
  /\ ppc = "thread"
  /\ queue # <<>>
  /\ thread' = Head(queue)
  /\ queue' = Tail(queue)
  /\ lines' = Append(lines, Line("thread_title",
                 [top |-> Head(queue).tid = TOP_THREAD_ID, thread_id |-> Head(queue).tid,
                  total_messages |-> Len(Head(queue).rows)]))
  /\ IF NeedsBatches(Len(Head(queue).rows), cfg.ai_max_messages_per_batch)
     THEN /\ ppc' = "batch"
          /\ num_batches' = NumBatches(Len(Head(queue).rows), cfg.ai_max_messages_per_batch)
          /\ batch_lines' = <<Line("batch_intro",
                                 <<NumBatches(Len(Head(queue).rows), cfg.ai_max_messages_per_batch),
                                   cfg.ai_max_messages_per_batch>>),
                             BlankLine>>
          /\ batch_idx' = 0
          /\ all_overalls' = <<>>
          /\ all_categories' = <<>>
          /\ batch_failed' = FALSE
     ELSE /\ ppc' = "single"
          /\ UNCHANGED batchVars
  /\ UNCHANGED <<extractVars, unitVars, inputVars, calls, raised>>

\* An exception leaves build_ai_summary_section: nothing is returned.
Propagate(exc) ==
  /\ ppc' = "crashed"
  /\ raised' = exc
  /\ lines' = lines

\* One entry of calls: the rows the call is about, the request, the response.
CallRecord(batch_rows, batch_info, resp) ==
  [thread_id |-> thread.tid,
   rows |-> batch_rows,
   payload |-> BuildAiPayload(thread.tid, ConvertRowsToMessages(batch_rows, conn.ids), batch_info),
   resp |-> resp]

\* Lines 738-743 for the lines r of _process_single_thread.
SingleDone(resp, r) ==
  /\ calls' = Append(calls, CallRecord(thread.rows, NoBatchInfo, resp))
  /\ IF r.exc # "none"
     THEN Propagate(r.exc)
     ELSE /\ lines' = lines \o r.val \o <<BlankLine>>
          /\ ppc' = "thread"
          /\ raised' = raised

\* _process_single_thread, and lines 741-743.
SingleThread ==
  /\ ppc = "single"
  /\ \E resp \in Responses : SingleDone(resp, SingleThreadLines(Service[resp], chat_link, rows))
  /\ UNCHANGED <<extractVars, unitVars, inputVars, queue, thread, batchVars>>

\* Lines 645-647 for the categories of a batch.
BatchCategories(batch_categories) ==
  IF ~Truthy(batch_categories)
  THEN /\ all_categories' = all_categories
       /\ batch_idx' = batch_idx + 1
       /\ UNCHANGED <<ppc, raised, lines>>
  ELSE IF ~Iterable(batch_categories)
  THEN /\ Propagate("TypeError")
       /\ UNCHANGED <<all_categories, batch_idx>>
  ELSE /\ all_categories' = all_categories \o Items(batch_categories)
       /\ batch_idx' = batch_idx + 1
       /\ UNCHANGED <<ppc, raised, lines>>

\* Lines 641-647 for the value the call returned.
BatchData(data) ==
  IF ~IsDict(data)
  THEN /\ Propagate("AttributeError")
       /\ UNCHANGED <<all_overalls, all_categories, batch_idx>>
  ELSE /\ all_overalls' = IF Truthy(DictGet(data, K_overall))
                          THEN Append(all_overalls,
                                      [batch_num |-> batch_idx + 1, overall |-> DictGet(data, K_overall)])
                          ELSE all_overalls
       /\ BatchCategories(OrDefault(DictGet(data, K_categories), EmptyList))

\* Lines 630-647 for the outcome of the call.
BatchOutcome(out) ==
  IF out.kind = "return"
  THEN /\ BatchData(out.val)
       /\ UNCHANGED <<batch_lines, batch_failed>>
  ELSE IF out.exc = "AISummaryError"
  THEN /\ batch_lines' = batch_lines \o <<Line("batch_failed", out.msg), BlankLine>>
       /\ batch_failed' = TRUE
       /\ batch_idx' = batch_idx + 1
       /\ UNCHANGED <<ppc, raised, lines, all_overalls, all_categories>>
  ELSE /\ Propagate(out.exc)
       /\ UNCHANGED <<batch_lines, batch_failed, batch_idx, all_overalls, all_categories>>

BatchTurn(resp, out) ==
  /\ calls' = Append(calls,
                CallRecord(BatchRows(thread.rows, batch_idx, cfg.ai_max_messages_per_batch),
                           BatchInfo(batch_idx + 1, num_batches, Len(thread.rows)), resp))
  /\ BatchOutcome(out)

\* One turn of the loop of _process_thread_batch (lines 602-647).
BatchCall ==
  /\ ppc = "batch"
  /\ batch_idx < num_batches
  /\ \E resp \in Responses : BatchTurn(resp, Service[resp])
  /\ UNCHANGED <<extractVars, unitVars, inputVars, queue, thread, num_batches>>

\* Lines 732-743 for the lines r that follow the batches' own.
MergeDone(r) ==
  IF r.exc # "none"
  THEN Propagate(r.exc)
  ELSE /\ lines' = lines \o batch_lines \o r.val \o <<BlankLine>>
       /\ ppc' = "thread"
       /\ raised' = raised

\* The loop is over: lines 649-663, then 735 and 743.
BatchMerge ==
  /\ ppc = "batch"
  /\ batch_idx = num_batches
  /\ MergeDone(MergeLines(batch_failed, all_overalls, all_categories, chat_link, rows))
  /\ UNCHANGED <<extractVars, unitVars, inputVars, queue, thread, batchVars, calls>>

\* Line 745.
SectionReturn ==
  /\ ppc = "thread"
  /\ queue = <<>>
  /\ ppc' = "done"
  /\ UNCHANGED <<extractVars, unitVars, inputVars, queue, lines, thread, batchVars, calls, raised>>

Init == ReportInit

Next ==
  \/ SectionStart
  \/ ThreadBegin
  \/ SingleThread
  \/ BatchCall
  \/ BatchMerge
  \/ SectionReturn

Spec == Init /\ [][Next]_vars

(***************************************************************************)
(* The categories of one thread, step by step: sorted (a thread handled by *)
(* one call, line 548), merged (_merge_categories) and formatted           *)
(* (_format_category_output)                                               *)
(***************************************************************************)
MaxCats == 3

Category(name, summary, ids) ==
  JObject(<<Field(K_name, JString(Ords(name))), Field(K_summary, JString(Ords(summary))),
            Field(K_messages, JArray(ids))>>)

\* A category without a name, and one without a summary.
Nameless(summary, ids) ==
  JObject(<<Field(K_summary, JString(Ords(summary))), Field(K_messages, JArray(ids))>>)

Unsummarized(name, ids) ==
  JObject(<<Field(K_name, JString(Ords(name))), Field(K_messages, JArray(ids))>>)

\* A and B are known names, a and c are not.
CatNameChoices == {<<"A">>, <<"B">>, <<"a">>, <<"c">>}

SampleCategories ==
  {Category(n, <<"s">>, <<JInt(1), JInt(2)>>) : n \in CatNameChoices}
    \cup {Category(n, <<"t">>, <<JInt(2), JInt(3)>>) : n \in CatNameChoices}
    \cup {Nameless(<<"s">>, <<JInt(1), JInt(2)>>), Nameless(<<"t">>, <<JInt(2), JInt(3)>>),
          Unsummarized(<<"A">>, <<JInt(3)>>), Category(<<"B">>, <<"t">>, <<>>), JInt(1)}

\* Both callers hand over a list that is not empty (lines 547, 658).
CategoryLists == UNION {[1..n -> SampleCategories] : n \in 1..MaxCats}

\* message_map: the rows of the report, with the ids 2 and 3.
CatRows == RowsOf(<<NoReply, NoReply>>)

CatInit ==
  /\ cat_input \in CategoryLists
  /\ cat_is_batch \in BOOLEAN
  /\ cat_pc = IF cat_is_batch THEN "merge" ELSE "sort"
  /\ cat_list = IF cat_is_batch THEN cat_input ELSE <<>>
  /\ cat_idx = 1
  /\ cat_map = <<>>
  /\ cat_lines = <<>>
  /\ cat_raised = "none"
  /\ ExtractIdle
  /\ ReportIdle
  /\ GroupIdle
  /\ StoreIdle
  /\ RestIdle

\* An exception leaves the handling of the categories.
CatRaise(exc) ==
  /\ cat_pc' = "raised"
  /\ cat_raised' = exc

\* Line 548 for the outcome r of the sort.
CatSorted(r) ==
  IF r.exc # "none"
  THEN /\ CatRaise(r.exc)
       /\ cat_list' = cat_list
  ELSE /\ cat_list' = r.val
       /\ cat_pc' = "merge"
       /\ cat_raised' = cat_raised

\* sorted_categories = _sort_categories_by_priority(categories)
CatSort ==
  /\ cat_pc = "sort"
  /\ CatSorted(SortItemsByPriority(cat_input))
  /\ UNCHANGED <<extractVars, reportVars, restVars, groupVars, storeVars,
                 cat_input, cat_is_batch, cat_idx, cat_map, cat_lines>>

\* Lines 376-385 for the category cat.
CatMergeBody(cat) ==
  IF ~IsDict(cat)
  THEN /\ CatRaise("AttributeError")
       /\ UNCHANGED <<cat_map, cat_idx>>
  ELSE IF ~Hashable(CatName(cat)) \/ ~Iterable(CatMessages(cat))
  THEN /\ CatRaise("TypeError")
       /\ UNCHANGED <<cat_map, cat_idx>>
  ELSE /\ cat_map' = Collect(WithName(cat_map, CatName(cat)), CatName(cat), CatSummary(cat),
                             Items(CatMessages(cat)))
       /\ cat_idx' = cat_idx + 1
       /\ UNCHANGED <<cat_pc, cat_raised>>

\* One turn of the loop of _merge_categories (line 375).
CatMergeTurn ==
  /\ cat_pc = "merge"
  /\ cat_idx <= Len(cat_list)
  /\ CatMergeBody(cat_list[cat_idx])
  /\ UNCHANGED <<extractVars, reportVars, restVars, groupVars, storeVars,
                 cat_input, cat_is_batch, cat_list, cat_lines>>

\* Lines 388-391 for the outcome r of the second loop.
CatDeduped(r) ==
  IF r.exc # "none"
  THEN /\ CatRaise(r.exc)
       /\ cat_map' = cat_map
  ELSE /\ cat_map' = r.val
       /\ cat_pc' = "format"
       /\ cat_raised' = cat_raised

\* The loop is over: the ids of each name lose their repetitions.
CatDedupe ==
  /\ cat_pc = "merge"
  /\ cat_idx > Len(cat_list)
  /\ CatDeduped(DedupeIds(Value(cat_map)))
  /\ UNCHANGED <<extractVars, reportVars, restVars, groupVars, storeVars,
                 cat_input, cat_is_batch, cat_list, cat_idx, cat_lines>>

CatFormatted(r) ==
  IF r.exc # "none"
  THEN /\ CatRaise(r.exc)
       /\ cat_lines' = cat_lines
  ELSE /\ cat_lines' = r.val
       /\ cat_pc' = "done"
       /\ cat_raised' = cat_raised

\* lines.extend(_format_category_output(category_map, is_batch, ...)), lines 550, 661.
CatFormat ==
  /\ cat_pc = "format"
  /\ CatFormatted(FormatCategoryOutput(cat_map, cat_is_batch, FALSE, CatRows))
  /\ UNCHANGED <<extractVars, reportVars, restVars, groupVars, storeVars,
                 cat_input, cat_is_batch, cat_list, cat_idx, cat_map>>

CatNext ==
  \/ CatSort
  \/ CatMergeTurn
  \/ CatDedupe
  \/ CatFormat

SpecCategories == CatInit /\ [][CatNext]_vars

\* The steps end where the one-operator forms say.
CatAgrees ==
  /\ (cat_pc = "done" /\ cat_is_batch) =>
       Value(cat_lines) = FormatMerged(MergeCategories(cat_input), TRUE, FALSE, CatRows)
  /\ (cat_pc = "done" /\ ~cat_is_batch) =>
       Value(cat_lines) = FormatMerged(SortedThenMerged(SortItemsByPriority(cat_input)), FALSE, FALSE, CatRows)

(***************************************************************************)
(* _group_messages_by_thread, step by step                                 *)
(***************************************************************************)
MaxGroupRows == 4

\* The rows of a day in the order of the query: each answers nothing, or one
\* of two older messages.
GroupRowSeqs == {RowsOf(r) : r \in UNION {[1..n -> {NoReply, 1, 2}] : n \in 0..MaxGroupRows}}

GroupInit ==
  /\ grp_rows \in GroupRowSeqs
  /\ grp_pc = "loop"
  /\ grp_idx = 1
  /\ grp_threads = <<>>
  /\ ExtractIdle
  /\ ReportIdle
  /\ CatIdle
  /\ StoreIdle
  /\ RestIdle

\* Lines 235-239: one turn of the loop.
GroupTurn ==
  /\ grp_pc = "loop"
  /\ grp_idx <= Len(grp_rows)
  /\ grp_threads' = AddToThread(grp_threads, grp_rows[grp_idx])
  /\ grp_idx' = grp_idx + 1
  /\ UNCHANGED <<extractVars, reportVars, restVars, catVars, storeVars, grp_rows, grp_pc>>

\* Line 240.
GroupReturn ==
  /\ grp_pc = "loop"
  /\ grp_idx > Len(grp_rows)
  /\ grp_pc' = "done"
  /\ UNCHANGED <<extractVars, reportVars, restVars, catVars, storeVars, grp_rows, grp_idx, grp_threads>>

GroupNext ==
  \/ GroupTurn
  \/ GroupReturn

SpecGroup == GroupInit /\ [][GroupNext]_vars

(***************************************************************************)
(* The messages table over the runs of the program                        *)
(*                                                                         *)
(* db_table and db_thread_col say whether the file holds the table and    *)
(* whether the table has the thread_id column; db_rows is the committed    *)
(* content, one row for each message_id of the chat; db_written holds the  *)
(* message ids that fetch_incremental inserted.  db_pc is the place of    *)
(* the run in main(): "stopped" between two runs.                         *)
(***************************************************************************)
MaxMessageId == 2

\* thread_id INTEGER (database.py line 40) admits NULL, written 0 here: the
\* ids of messages are positive and TOP_THREAD_ID is negative.
NoThreadId == 0

\* main.py line 237.
ThreadIdFor(reply_to) == IF reply_to = NoReply THEN TOP_THREAD_ID ELSE reply_to

StoredRow(message_id, reply_to, thread_id) ==
  [message_id |-> message_id, reply_to |-> reply_to, thread_id |-> thread_id]

\* A message of the chat answers nothing or an older message.
Messages ==
  {m \in [message_id : 1..MaxMessageId, reply_to : {NoReply} \cup 1..MaxMessageId] :
     m.reply_to < m.message_id}

\* PRIMARY KEY (chat_id, message_id), for the one chat of the configuration.
OneRowPerId(S) == \A a \in S : \A b \in S : a.message_id = b.message_id => a = b

MessageSets == {S \in SUBSET Messages : OneRowPerId(S)}

\* The table as a release without the thread_id column wrote it: ADD COLUMN
\* (line 50) gives these rows NULL.
RowsWithoutThreadId(S) == {StoredRow(m.message_id, m.reply_to, NoThreadId) : m \in S}

\* The thread_id values an earlier release with the column left: reply_to
\* for an answer, and for a message that answers nothing either
\* TOP_THREAD_ID or another value, the message's own id (the rows that the
\* UPDATE of lines 66-72 is there for).
EarlierThreadIds(m) ==
  IF m.reply_to = NoReply THEN {TOP_THREAD_ID, m.message_id} ELSE {m.reply_to}

EarlierRowSets ==
  {R \in SUBSET {StoredRow(m.message_id, m.reply_to, t) :
                   m \in Messages, t \in {TOP_THREAD_ID} \cup 1..MaxMessageId} :
     /\ OneRowPerId(R)
     /\ \A row \in R : row.thread_id \in EarlierThreadIds(row)}

StoreInit ==
  /\ db_pc = "stopped"
  /\ db_written = {}
  /\ \/ db_table = FALSE /\ db_thread_col = FALSE /\ db_rows = {}
     \/ db_table = TRUE /\ db_thread_col = FALSE
          /\ db_rows \in {RowsWithoutThreadId(S) : S \in MessageSets}
     \/ db_table = TRUE /\ db_thread_col = TRUE /\ db_rows \in EarlierRowSets
  /\ ExtractIdle
  /\ ReportIdle
  /\ CatIdle
  /\ GroupIdle
  /\ RestIdle

\* main.py line 571: a run of the program begins with ensure_db.
MainStart ==
  /\ db_pc = "stopped"
  /\ db_pc' = "create"
  /\ UNCHANGED <<extractVars, reportVars, restVars, catVars, groupVars,
                 db_table, db_thread_col, db_rows, db_written>>

\* Lines 25-45: CREATE TABLE IF NOT EXISTS makes the table, thread_id
\* included, where there is none; cols is read from the table.
EnsureDbCreateTable ==
  /\ db_pc = "create"
  /\ db_table' = TRUE
  /\ db_thread_col' = IF db_table THEN db_thread_col ELSE TRUE
  /\ db_pc' = "cols"
  /\ UNCHANGED <<extractVars, reportVars, restVars, catVars, groupVars, db_rows, db_written>>

\* Lines 49-50: "thread_id" not in cols.  sqlite3 opens no transaction for
\* ALTER TABLE: the column is in the file once the statement returns, NULL
\* in every row.
EnsureDbAddThreadId ==
  /\ db_pc = "cols"
  /\ ~db_thread_col
  /\ db_thread_col' = TRUE
  /\ db_pc' = "populate"
  /\ UNCHANGED <<extractVars, reportVars, restVars, catVars, groupVars,
                 db_table, db_rows, db_written>>

\* Lines 54-63: UPDATE ... SET thread_id = CASE ... END over every row, and
\* the commit.
Populated(stored) == {StoredRow(row.message_id, row.reply_to, ThreadIdFor(row.reply_to)) : row \in stored}

EnsureDbPopulate ==
  /\ db_pc = "populate"
  /\ db_rows' = Populated(db_rows)
  /\ db_pc' = "populated"
  /\ UNCHANGED <<extractVars, reportVars, restVars, catVars, groupVars,
                 db_table, db_thread_col, db_written>>

\* Lines 64-73: WHERE reply_to IS NULL AND thread_id != ?.  The comparison
\* of a NULL thread_id is NULL in SQL, so the row is not selected.
TopLevelUpdated(stored) ==
  {IF row.reply_to = NoReply /\ row.thread_id # NoThreadId /\ row.thread_id # TOP_THREAD_ID
     THEN StoredRow(row.message_id, row.reply_to, TOP_THREAD_ID)
     ELSE row : row \in stored}

EnsureDbUpdateTopLevel ==
  /\ db_pc = "cols"
  /\ db_thread_col
  /\ db_rows' = TopLevelUpdated(db_rows)
  /\ db_pc' = "updated"
  /\ UNCHANGED <<extractVars, reportVars, restVars, catVars, groupVars,
                 db_table, db_thread_col, db_written>>

\* Lines 81-94: the two indexes, the last commit, the connection closed.  No
\* row changes.
EnsureDbIndexes ==
  /\ db_pc \in {"populated", "updated"}
  /\ db_pc' = "ready"
  /\ UNCHANGED <<extractVars, reportVars, restVars, catVars, groupVars,
                 db_table, db_thread_col, db_rows, db_written>>

\* Lines 54-62 and 93-94: the UPDATE raises (sqlite3.OperationalError, the
\* file locked by another connection or the disk full) or the process is
\* stopped before the commit of line 63; finally closes the connection, the
\* exception ends main().  The rows stay as the last commit left them.
EnsureDbRaise ==
  /\ db_pc = "populate"
  /\ db_pc' = "stopped"
  /\ UNCHANGED <<extractVars, reportVars, restVars, catVars, groupVars,
                 db_table, db_thread_col, db_rows, db_written>>

\* main.py lines 207-259: INSERT OR IGNORE for each message of the pull,
\* thread_id from line 237, one commit after the loop.  A message whose id
\* the table holds already is ignored.
HasId(stored, message_id) == \E row \in stored : row.message_id = message_id

Inserted(stored, pulled) ==
  stored \cup {StoredRow(m.message_id, m.reply_to, ThreadIdFor(m.reply_to)) :
               m \in {x \in pulled : ~HasId(stored, x.message_id)}}

FetchIncremental ==
  /\ db_pc = "ready"
  /\ \E pulled \in MessageSets :
       /\ db_rows' = Inserted(db_rows, pulled)
       /\ db_written' = db_written \cup {m.message_id : m \in {x \in pulled : ~HasId(db_rows, x.message_id)}}
  /\ db_pc' = "pulled"
  /\ UNCHANGED <<extractVars, reportVars, restVars, catVars, groupVars, db_table, db_thread_col>>

\* main.py lines 573-575 and 604: the run ends, with or without a pull.
MainReturn ==
  /\ db_pc \in {"ready", "pulled"}
  /\ db_pc' = "stopped"
  /\ UNCHANGED <<extractVars, reportVars, restVars, catVars, groupVars,
                 db_table, db_thread_col, db_rows, db_written>>

StoreNext ==
  \/ MainStart
  \/ EnsureDbCreateTable
  \/ EnsureDbAddThreadId
  \/ EnsureDbPopulate
  \/ EnsureDbUpdateTopLevel
  \/ EnsureDbIndexes
  \/ EnsureDbRaise
  \/ FetchIncremental
  \/ MainReturn

SpecStore == StoreInit /\ [][StoreNext]_vars

(***************************************************************************)
(* _calculate_statistics and the two top lists of _build_report_content    *)
(*                                                                         *)
(* A row is [user_id, username, media_type, reply_to]; 0 stands for None   *)
(* in user_id, and the empty text for None in username and media_type.     *)
(* The rows come one at a time, in the order of the query.                 *)
(***************************************************************************)
MaxStatRows == 4
MaxTopN == 2

\* constants.py; the report calls the first list "Top 5" (line 105).
TOP_N_USERS == 5

\* What TOP_N_USERS and TOP_N_THREADS may be.
TopNChoices == {MaxTopN, TOP_N_USERS}

\* main.py lines 270-275, message_handler.format_user.
FormatUser(user_id, username) ==
  IF username # <<>> THEN <<"@">> \o username
  ELSE IF user_id # 0 THEN <<"user_", user_id>>
  ELSE <<"unknown">>

StatRowKinds ==
  [user_id : 0..2, username : {<<>>, <<"x">>}, media_type : {<<>>, <<"photo">>},
   reply_to : {NoReply, 1, 2}]

\* stats[key] = stats.get(key, 0) + 1, on the items of the dict.
CountKey(stats, key) ==
  IF \E k \in 1..Len(stats) : stats[k].key = key
  THEN [k \in 1..Len(stats) |->
          IF stats[k].key = key THEN [key |-> key, cnt |-> stats[k].cnt + 1] ELSE stats[k]]
  ELSE Append(stats, [key |-> key, cnt |-> 1])

RECURSIVE TotalCount(_)
TotalCount(stats) == IF stats = <<>> THEN 0 ELSE Head(stats).cnt + TotalCount(Tail(stats))

\* The keys in the order of their first row.
FirstSeen(first, key) ==
  IF \E k \in 1..Len(first) : first[k] = key THEN first ELSE Append(first, key)

RECURSIVE Reversed(_)
Reversed(seq) == IF seq = <<>> THEN <<>> ELSE Append(Reversed(Tail(seq)), Head(seq))

\* A descending order made by turning the ascending one around.
ByCountAscTurned(stats) ==
  Reversed(SortedItems([k \in 1..Len(stats) |-> [rank |-> stats[k].cnt, item |-> stats[k]]]))

\* sorted(stats.items(), key=lambda x: x[1], reverse=True): equal counts keep
\* their order.
ByCountDesc(stats) ==
  SortedItems([k \in 1..Len(stats) |-> [rank |-> 0 - stats[k].cnt, item |-> stats[k]]])

\* Lines 102-103: [:n]
TopOf(stats, n) == SubSeq(ByCountDesc(stats), 1, Min(n, Len(stats)))

StatInit ==
  /\ st_pc = "rows"
  /\ st_user_stats = <<>>
  /\ st_media_stats = <<>>
  /\ st_thread_stats = <<>>
  /\ st_top_n \in [users : TopNChoices, threads : TopNChoices]
  /\ st_top_users = <<>>
  /\ st_top_threads = <<>>
  /\ st_first = NoneFirst
  /\ ExtractIdle
  /\ ReportIdle
  /\ CatIdle
  /\ GroupIdle
  /\ StoreIdle
  /\ PreviewIdle
  /\ PullIdle
  /\ ConvertIdle

\* Lines 39-45 for one row.
CountRow(row) ==
  /\ st_user_stats' = CountKey(st_user_stats, FormatUser(row.user_id, row.username))
  /\ st_media_stats' = IF row.media_type # <<>>
                       THEN CountKey(st_media_stats, row.media_type)
                       ELSE st_media_stats
  /\ st_thread_stats' = IF row.reply_to # NoReply
                        THEN CountKey(st_thread_stats, row.reply_to)
                        ELSE st_thread_stats
  /\ st_first' = [users |-> FirstSeen(st_first.users, FormatUser(row.user_id, row.username)),
                  threads |-> IF row.reply_to # NoReply
                              THEN FirstSeen(st_first.threads, row.reply_to)
                              ELSE st_first.threads]

\* One turn of the loop of line 38.
StatRow ==
  /\ st_pc = "rows"
  /\ TotalCount(st_user_stats) < MaxStatRows
  /\ \E row \in StatRowKinds : CountRow(row)
  /\ UNCHANGED <<extractVars, reportVars, catVars, groupVars, storeVars, previewVars, pullVars, convertVars,
                 st_pc, st_top_n, st_top_users, st_top_threads>>

\* Line 47: the rows are over.
StatReturn ==
  /\ st_pc = "rows"
  /\ st_pc' = "content"
  /\ UNCHANGED <<extractVars, reportVars, catVars, groupVars, storeVars, previewVars, pullVars, convertVars,
                 st_user_stats, st_media_stats, st_thread_stats, st_top_n,
                 st_top_users, st_top_threads, st_first>>

\* _build_report_content, lines 102-103.
BuildReportContent ==
  /\ st_pc = "content"
  /\ st_top_users' = TopOf(st_user_stats, st_top_n.users)
  /\ st_top_threads' = TopOf(st_thread_stats, st_top_n.threads)
  /\ st_pc' = "done"
  /\ UNCHANGED <<extractVars, reportVars, catVars, groupVars, storeVars, previewVars, pullVars, convertVars,
                 st_user_stats, st_media_stats, st_thread_stats, st_top_n, st_first>>

StatNext ==
  \/ StatRow
  \/ StatReturn
  \/ BuildReportContent

SpecStats == StatInit /\ [][StatNext]_vars

(***************************************************************************)
(* The two previews of the text of a message: in the list of popular       *)
(* reply targets (_build_report_content) and in the original references    *)
(* of a thread section (_format_category_output)                           *)
(***************************************************************************)
MaxPreviewText == 52

\* n letters a, the one at place p (if any) replaced by the code point c.
TextWith(n, p, c) == [k \in 1..n |-> IF k = p THEN c ELSE 97]

\* Texts with a newline, a blank or a ] at any place, up to two characters
\* past the budget.
PreviewTexts ==
  {TextWith(n, p, c) : n \in 0..MaxPreviewText, p \in 0..MaxPreviewText, c \in {10, 32, 93}}

\* Line 132: replied_text[:50] + ("..." if len(replied_text) > 50 else "")
CutText(text) ==
  IF Len(text) > PREVIEW_CHARS THEN SubSeq(text, 1, PREVIEW_CHARS) \o <<46, 46, 46>> ELSE text

\* str.replace("\n", " ")
NewlinesToSpaces(cps) == [k \in 1..Len(cps) |-> IF cps[k] = 10 THEN 32 ELSE cps[k]]

\* Line 135 for a message without text and without media.
EMPTY_PLACEHOLDER == <<91, 31354, 28040, 24687, 93>>

\* Lines 129-135.
ThreadPreview(text, has_media) ==
  IF text # <<>> THEN StripCps(NewlinesToSpaces(CutText(text)))
  ELSE IF has_media THEN MEDIA_PLACEHOLDER ELSE EMPTY_PLACEHOLDER

PreviewInit ==
  /\ pv_pc = "content"
  /\ pv_text \in PreviewTexts
  /\ pv_ref = <<>>
  /\ pv_thread = <<>>
  /\ ExtractIdle
  /\ ReportIdle
  /\ CatIdle
  /\ GroupIdle
  /\ StoreIdle
  /\ StatIdle
  /\ PullIdle
  /\ ConvertIdle

\* _build_report_content, lines 126-135: the message is a reply target.
PreviewThread ==
  /\ pv_pc = "content"
  /\ \E has_media \in BOOLEAN : pv_thread' = ThreadPreview(pv_text, has_media)
  /\ pv_pc' = "section"
  /\ UNCHANGED <<extractVars, reportVars, catVars, groupVars, storeVars, statVars, pullVars, convertVars,
                 pv_text, pv_ref>>

\* _format_category_output, lines 446-456: a category refers to the message.
PreviewRef ==
  /\ pv_pc = "section"
  /\ pv_ref' = Preview(StripCps(pv_text))
  /\ pv_pc' = "done"
  /\ UNCHANGED <<extractVars, reportVars, catVars, groupVars, storeVars, statVars, pullVars, convertVars,
                 pv_text, pv_thread>>

PreviewNext ==
  \/ PreviewThread
  \/ PreviewRef

SpecPreview == PreviewInit /\ [][PreviewNext]_vars

(***************************************************************************)
(* _convert_rows_to_messages, step by step                                 *)
(***************************************************************************)
MaxConvertRows == 4

\* The rows of a thread or batch, each answering nothing or an older message;
\* the store holds the rows themselves and maybe the older message 1.
ConvertRowSeqs ==
  {rs \in {RowsOf(r) : r \in UNION {[1..n -> {NoReply, 1, 2}] : n \in 0..MaxConvertRows}} :
     \A k \in 1..Len(rs) : rs[k].reply_to < rs[k].message_id}

ConvertInit ==
  /\ cv_rows \in ConvertRowSeqs
  /\ cv_store \in {IdsOf(cv_rows) \cup old : old \in SUBSET {1}}
  /\ cv_pc = "loop"
  /\ cv_idx = 1
  /\ cv_messages = <<>>
  /\ ExtractIdle
  /\ ReportIdle
  /\ CatIdle
  /\ GroupIdle
  /\ StoreIdle
  /\ StatIdle
  /\ PreviewIdle
  /\ PullIdle

\* Lines 263-293: one turn of the loop.
ConvertTurn ==
  /\ cv_pc = "loop"
  /\ cv_idx <= Len(cv_rows)
  /\ cv_messages' = IF RowKept(cv_rows[cv_idx], cv_store)
                    THEN Append(cv_messages, MessageOf(cv_rows[cv_idx]))
                    ELSE cv_messages
  /\ cv_idx' = cv_idx + 1
  /\ UNCHANGED <<extractVars, reportVars, catVars, groupVars, storeVars, statVars, previewVars,
                 pullVars, cv_rows, cv_store, cv_pc>>

\* Line 298.
ConvertReturn ==
  /\ cv_pc = "loop"
  /\ cv_idx > Len(cv_rows)
  /\ cv_pc' = "done"
  /\ UNCHANGED <<extractVars, reportVars, catVars, groupVars, storeVars, statVars, previewVars,
                 pullVars, cv_rows, cv_store, cv_idx, cv_messages>>

ConvertNext ==
  \/ ConvertTurn
  \/ ConvertReturn

SpecConvert == ConvertInit /\ [][ConvertNext]_vars

\* The steps end where the one-operator form says.
ConvertAgrees == cv_pc = "done" => cv_messages = ConvertRowsToMessages(cv_rows, cv_store)

(***************************************************************************)
(* fetch_incremental over the runs of the program (main.py)                *)
(***************************************************************************)
MaxPullId == 3

\* The ids of a set, oldest first: iter_messages(..., reverse=True).
OldestFirst(ids) == SelectSeq([k \in 1..MaxPullId |-> k], LAMBDA k : k \in ids)

\* What iter_messages(min_id=last_id, reverse=True) can give: messages newer
\* than last_id, oldest first.  A message that is None, a service action or
\* older than the cutoff is passed over (lines 213-219): kept is FALSE.
FeedOf(ids, passed) ==
  [k \in 1..Len(OldestFirst(ids)) |->
     [id |-> OldestFirst(ids)[k], kept |-> OldestFirst(ids)[k] \notin passed]]

Feeds(last_id) ==
  {FeedOf(p[1], p[2]) :
     p \in {q \in (SUBSET ((last_id + 1)..MaxPullId)) \X (SUBSET ((last_id + 1)..MaxPullId)) :
              q[2] \subseteq q[1]}}

\* Line 206 with max_id started from nothing.
FirstMaxIdZero(last_id) == 0

\* Line 206: max_id = last_id.
FirstMaxId(last_id) == last_id

\* Lines 260-261.
NewMaxId(max_id, id) == IF id > max_id THEN id ELSE max_id

\* A close that keeps what was inserted.
ClosedKeeping(stored, tx) == stored \cup tx

\* Line 265 without the commit of line 263: the transaction is rolled back.
ClosedUncommitted(stored, tx) == stored

\* Line 263: conn.commit().
Committed(stored, tx) == stored \cup tx

PullInit ==
  /\ PullIdle
  /\ ExtractIdle
  /\ ReportIdle
  /\ CatIdle
  /\ GroupIdle
  /\ StoreIdle
  /\ StatIdle
  /\ PreviewIdle
  /\ ConvertIdle

\* No run of fetch_incremental is under way.
PullOver == pull_pc \in {"idle", "returned", "raised"}

\* Lines 201-212: get_last_id (0 when the file is missing), the connection,
\* max_id, and the request to iter_messages.
PullStart ==
  /\ PullOver
  /\ pull_pc' = "loop"
  /\ pull_last_id' = pull_file
  /\ pull_max_id' = FirstMaxId(pull_file)
  /\ pull_feed' \in Feeds(pull_file)
  /\ pull_tx' = {}
  /\ pull_given' = {}
  /\ UNCHANGED <<extractVars, reportVars, catVars, groupVars, storeVars, statVars, previewVars,
                 convertVars, pull_file, pull_stored, pull_handled>>

\* Lines 213-219: continue.
PullPassOver ==
  /\ pull_pc = "loop"
  /\ pull_feed # <<>>
  /\ ~Head(pull_feed).kept
  /\ pull_feed' = Tail(pull_feed)
  /\ pull_given' = pull_given \cup {Head(pull_feed).id}
  /\ UNCHANGED <<extractVars, reportVars, catVars, groupVars, storeVars, statVars, previewVars,
                 convertVars, pull_pc, pull_file, pull_last_id, pull_max_id, pull_tx, pull_stored,
                 pull_handled>>

\* Lines 220-261: INSERT OR IGNORE inside the open transaction, then max_id.
PullInsert ==
  /\ pull_pc = "loop"
  /\ pull_feed # <<>>
  /\ Head(pull_feed).kept
  /\ pull_tx' = pull_tx \cup {Head(pull_feed).id}
  /\ pull_handled' = pull_handled \cup {Head(pull_feed).id}
  /\ pull_max_id' = NewMaxId(pull_max_id, Head(pull_feed).id)
  /\ pull_feed' = Tail(pull_feed)
  /\ pull_given' = pull_given \cup {Head(pull_feed).id}
  /\ UNCHANGED <<extractVars, reportVars, catVars, groupVars, storeVars, statVars, previewVars,
                 convertVars, pull_pc, pull_file, pull_last_id, pull_stored>>

\* iter_messages, normalize_dt, extract_media or the INSERT raises, or the
\* commit does: finally closes the connection (line 265) and the exception
\* leaves fetch_incremental before line 267.
PullRaise ==
  /\ pull_pc = "loop"
  /\ pull_pc' = "raised"
  /\ pull_stored' = ClosedUncommitted(pull_stored, pull_tx)
  /\ pull_tx' = {}
  /\ pull_feed' = <<>>
  /\ UNCHANGED <<extractVars, reportVars, catVars, groupVars, storeVars, statVars, previewVars,
                 convertVars, pull_file, pull_last_id, pull_max_id, pull_handled, pull_given>>

\* Lines 263-265: the loop is over, commit and close.
PullCommit ==
  /\ pull_pc = "loop"
  /\ pull_feed = <<>>
  /\ pull_pc' = "committed"
  /\ pull_stored' = Committed(pull_stored, pull_tx)
  /\ pull_tx' = {}
  /\ UNCHANGED <<extractVars, reportVars, catVars, groupVars, storeVars, statVars, previewVars,
                 convertVars, pull_file, pull_last_id, pull_max_id, pull_feed, pull_handled,
                 pull_given>>

\* Lines 267-268: set_last_id when max_id moved.
PullSetLastId ==
  /\ pull_pc = "committed"
  /\ pull_pc' = "returned"
  /\ pull_file' = IF pull_max_id # pull_last_id THEN pull_max_id ELSE pull_file
  /\ UNCHANGED <<extractVars, reportVars, catVars, groupVars, storeVars, statVars, previewVars,
                 convertVars, pull_last_id, pull_max_id, pull_feed, pull_tx, pull_stored,
                 pull_handled, pull_given>>

PullNext ==
  \/ PullStart
  \/ PullPassOver
  \/ PullInsert
  \/ PullRaise
  \/ PullCommit
  \/ PullSetLastId

SpecPull == PullInit /\ [][PullNext]_vars

(***************************************************************************)
(* Properties of the extractor                                             *)
(***************************************************************************)
Returned == pc = "done" /\ result.kind = "return"

\* C7: whenever the extractor returns instead of raising, the returned value
\* is a JSON object, never a bare array, string, number, boolean or null.
C7_ReturnsOnlyObjects == Returned => IsDict(result.val)

JsonTag == <<"j", "s", "o", "n">>
IsPlain == src.kind = "prose" /\ src.prefix = <<>> /\ src.suffix = <<>>
IsJsonFenced == src.kind = "fenced" /\ src.text = Fenced(JsonTag, Dumps(src.obj))

\* C8: round trip.  The extractor applied to the serialization of an object X,
\* bare or inside a fence tagged json (fence, newline, serialization, newline,
\* fence), returns X, also when strings of X hold backticks or braces.
C8_RoundTrip == (pc = "done" /\ (IsPlain \/ IsJsonFenced)) => result = Return(src.obj)

\* A fenced object whose string value holds a fence and a brace came back.
C8_Witness ==
  /\ pc = "done"
  /\ IsJsonFenced
  /\ src.obj = Obj1(K_a, JString(Ords(FENCE \o <<"}">>)))
  /\ result = Return(src.obj)

InProse == src.kind = "prose"
WalkedBraces == Len(tried) >= 3
WalkEndsAtObject == SubSeq(content, start_idx, i) = Dumps(src.obj)

\* C9 as stated: for an object X inside prose whose prefix holds no '{',
\* with any suffix, the extractor returns X, and the brace walk, when it runs,
\* ends at the closing brace of X.
C9_ProseAlwaysRecovered ==
  (pc = "done" /\ InProse) => (result = Return(src.obj) /\ (WalkedBraces => WalkEndsAtObject))

\* C9, amended: for an object X inside prose whose prefix holds no '{',
\* whenever neither the direct parse nor the fenced block gave a value, the
\* brace walk ends exactly at the closing brace of X and the extractor
\* returns X: braces, brackets and escaped quotes inside strings of X neither
\* change the depth nor end the string early.
C9_BraceWalkRecovers ==
  (pc = "done" /\ InProse /\ WalkedBraces) =>
    (tried[Len(tried)] = "brace" /\ WalkEndsAtObject /\ result = Return(src.obj))

\* An object whose string value is an escaped quote and a brace, between a
\* prefix and a suffix that holds a brace, was recovered by the walk.
C9_Witness ==
  /\ pc = "done"
  /\ InProse
  /\ src.prefix = <<"a", SPACE>>
  /\ src.suffix = <<"}">>
  /\ src.obj = Obj1(K_a, JString(Ords(<<QUOTE, "}">>)))
  /\ tried = <<"direct", "fence", "brace">>
  /\ result = Return(src.obj)

StrategyOrder == <<"direct", "fence", "brace", "bracket">>

StrategyNamed(name, text) ==
  CASE name = "direct" -> StrategyDirect(text)
    [] name = "fence" -> StrategyFence(text)
    [] name = "brace" -> StrategyBrace(text)
    [] name = "bracket" -> StrategyBracket(text)

\* C10: the strategies are tried in the order direct parse, fenced block,
\* brace walk, bracket walk; the result is the value of the first strategy
\* that parses, a later strategy is entered only when every earlier one
\* failed, and the extractor raises only when all four failed.
C10_FirstSuccessWins ==
  /\ Len(tried) <= 4
  /\ \A k \in 1..Len(tried) : tried[k] = StrategyOrder[k]
  /\ \A k \in 1..(Len(tried) - 1) : ~StrategyNamed(tried[k], content).ok
  /\ Returned =>
       /\ tried # <<>>
       /\ StrategyNamed(tried[Len(tried)], content).ok
       /\ result.val = StrategyNamed(tried[Len(tried)], content).val
  /\ (pc = "done" /\ result.kind = "raise" /\ tried # <<>>) =>
       /\ Len(tried) = 4
       /\ ~StrategyNamed("bracket", content).ok

\* The bracket walk gave the value after the three strategies before it failed.
C10_Witness == Returned /\ Len(tried) = 4

\* The brace walk was entered and ran off the end of the text: the depth
\* never came back to zero after the first '{'.
UnbalancedBraces ==
  /\ Len(tried) >= 3
  /\ Find(content, "{") >= 1
  /\ WalkFrom(content, Find(content, "{"), WalkStart, "{", "}") = 0

\* C11: when the brace depth never returns to zero after the first '{', the
\* brace walk raises nothing, the extractor goes on to the bracket walk, and
\* the outcome is the extraction-failure error only when the bracket walk
\* fails too.
C11_UnbalancedFallsThrough ==
  UnbalancedBraces =>
    /\ pc # "done" => result = Pending
    /\ pc = "done" =>
         /\ tried = StrategyOrder
         /\ result = ReturnOrRaise(StrategyBracket(content))

\* After an unclosed brace the bracket walk found the list.
C11_Witness ==
  /\ pc = "done"
  /\ src.text = <<"{", "[", "1", "]">>
  /\ UnbalancedBraces
  /\ result.kind = "return"

\* After an unclosed brace and an unclosed bracket the extractor raised.
C11_WitnessRaise ==
  /\ pc = "done"
  /\ src.text = <<"{", "[", "1">>
  /\ UnbalancedBraces
  /\ result = Raise("AISummaryError")

NothingRecoverable == \A k \in 1..4 : ~StrategyNamed(StrategyOrder[k], Strip(src.text)).ok

C12_WitnessNoJson ==
  /\ pc = "done"
  /\ src.text = <<"[", "{", "1">>
  /\ tried = StrategyOrder
  /\ result = Raise("AISummaryError")

\* C13: an input that is empty or only whitespace is rejected at case 0,
\* before any of the four strategies is attempted.
C13_BlankRejectedAtCase0 ==
  Strip(src.text) = <<>> => (tried = <<>> /\ pc \in {"case0", "done"})

\* The span the bracket walk takes from the stripped text, parsed.
BracketSpan(text) == WalkSpan(text, Find(text, "["), "[", "]")

\* C14: when the direct parse, the fenced block and the brace walk all fail
\* and the span from the first '[' to its matching ']' parses to a list L,
\* the extractor returns the object {"categories": L}.
C14_ListWrapped ==
  (/\ pc = "done"
   /\ src.text # <<>>
   /\ \A k \in 1..3 : ~StrategyNamed(StrategyOrder[k], Strip(src.text)).ok
   /\ BracketSpan(Strip(src.text)).ok
   /\ IsList(BracketSpan(Strip(src.text)).val)) =>
    result = Return(JObject(<<[k |-> K_categories, val |-> BracketSpan(Strip(src.text)).val]>>))

\* The list [1] before a stray brace came back under the key categories.
C14_Witness ==
  /\ pc = "done"
  /\ src.text = <<"[", "1", "]", "}">>
  /\ tried = StrategyOrder
  /\ result = Return(JObject(<<[k |-> K_categories, val |-> JArray(<<JInt(1)>>)]>>))

\* One of the two depth walks is being made.
Walking == pc \in {"brace_walk", "bracket_walk"}

\* C27: the depth walks are a three-state scanner: the walk skips the next
\* character (escape_next) only inside a quoted string, so no backslash
\* outside a string makes it skip the character that follows.
C27_EscapeOnlyInString == (Walking /\ walk.escape_next) => walk.in_string

(***************************************************************************)
(* Properties of the report                                                *)
(***************************************************************************)
\* The thread at hand is split into batches (line 731).
Split == thread # NoThread /\ Len(thread.rows) > cfg.ai_max_messages_per_batch

\* The calls made for the thread at hand, in order, and what each gave.
ThreadCalls == SelectSeq(calls, LAMBDA c : c.thread_id = thread.tid)
Outcome(c) == Service[c.resp]

\* The loop over the batches of the thread at hand was left.
LoopOver == Split /\ ppc = "batch" /\ batch_idx = num_batches
ThreadEnded == Split /\ ppc \in {"thread", "done", "crashed"}

\* The slices of all the batches of a thread, as lines 602-605 take them.
Plan(thread_rows, max_batch) ==
  [k \in 1..NumBatches(Len(thread_rows), max_batch) |-> BatchRows(thread_rows, k - 1, max_batch)]

IsPartition(slices, thread_rows, max_batch) ==
  /\ Len(slices) * max_batch >= Len(thread_rows)
  /\ (Len(slices) - 1) * max_batch < Len(thread_rows)
  /\ Concat(slices) = thread_rows
  /\ \A k \in 1..Len(slices) :
       /\ Len(slices[k]) >= 1
       /\ Len(slices[k]) <= max_batch
       /\ k < Len(slices) => Len(slices[k]) = max_batch

\* C1: for a thread of n rows and a batch size m with n > m, the slices
\* rows[k*m : min((k+1)*m, n)], k = 0..ceil(n/m)-1, concatenate to the rows
\* in their order, without overlap or gap; each is non-empty and holds at
\* most m rows, and each but the last holds exactly m.  The calls made are
\* about these slices, in this order.
C1_BatchesPartition ==
  Split =>
    /\ num_batches = Len(Plan(thread.rows, cfg.ai_max_messages_per_batch))
    /\ IsPartition(Plan(thread.rows, cfg.ai_max_messages_per_batch), thread.rows,
                   cfg.ai_max_messages_per_batch)
    /\ Len(ThreadCalls) <= num_batches
    /\ \A k \in 1..Len(ThreadCalls) :
         ThreadCalls[k].rows = Plan(thread.rows, cfg.ai_max_messages_per_batch)[k]

\* Three rows in batches of two: the calls were about rows 1-2, then row 3.
C1_Witness ==
  /\ LoopOver
  /\ Len(thread.rows) = 3
  /\ cfg.ai_max_messages_per_batch = 2
  /\ [k \in 1..Len(ThreadCalls) |-> ThreadCalls[k].rows]
       = <<SubSeq(thread.rows, 1, 2), SubSeq(thread.rows, 3, 3)>>

\* A call that failed: call_chat_analysis raised AISummaryError.  A call that
\* succeeded: it returned a value.
CallFailed(c) == Outcome(c).kind = "raise" /\ Outcome(c).exc = "AISummaryError"
CallSucceeded(c) == Outcome(c).kind = "return"

\* What the batches that succeeded give to the merge: the overall texts with
\* their batch numbers, and the categories, in the order of the batches.
RECURSIVE OverallsFrom(_, _)
OverallsFrom(cs, k) ==
  IF k > Len(cs) THEN <<>>
  ELSE (IF CallSucceeded(cs[k]) /\ Truthy(DictGet(Outcome(cs[k]).val, K_overall))
        THEN <<[batch_num |-> k, overall |-> DictGet(Outcome(cs[k]).val, K_overall)]>>
        ELSE <<>>)
       \o OverallsFrom(cs, k + 1)

RECURSIVE CategoriesFrom(_, _)
CategoriesFrom(cs, k) ==
  IF k > Len(cs) THEN <<>>
  ELSE (IF CallSucceeded(cs[k]) /\ Truthy(DictGet(Outcome(cs[k]).val, K_categories))
        THEN Items(DictGet(Outcome(cs[k]).val, K_categories))
        ELSE <<>>)
       \o CategoriesFrom(cs, k + 1)

\* C2: in a batched thread a failed call for batch i does not keep the calls
\* for the batches after i from being made, and the merge input is the
\* overall texts and the categories of exactly the batches that succeeded.
C2_FailureIsolated ==
  /\ ThreadEnded =>
       \A k \in 1..Len(ThreadCalls) : CallFailed(ThreadCalls[k]) => Len(ThreadCalls) = num_batches
  /\ LoopOver =>
       /\ all_overalls = OverallsFrom(ThreadCalls, 1)
       /\ all_categories = CategoriesFrom(ThreadCalls, 1)

\* C3: a thread of n rows with n > m gets exactly ceil(n / m) calls, one for
\* each batch in ascending order of the batch number, none of them twice.
C3_ExactlyCeilCalls ==
  ThreadEnded =>
    /\ Len(ThreadCalls) * cfg.ai_max_messages_per_batch >= Len(thread.rows)
    /\ (Len(ThreadCalls) - 1) * cfg.ai_max_messages_per_batch < Len(thread.rows)
    /\ \A k \in 1..Len(ThreadCalls) : ThreadCalls[k].payload.batch_info.batch_num = k

\* The lines of the section of the thread at hand, after its title.
LastTitle ==
  CHOOSE k \in 1..Len(lines) :
    lines[k].kind = "thread_title" /\ \A j \in (k + 1)..Len(lines) : lines[j].kind # "thread_title"
ThreadSection == SubSeq(lines, LastTitle + 1, Len(lines))
HasKind(ls, kind) == \E k \in 1..Len(ls) : ls[k].kind = kind
CountKind(ls, kind) == Cardinality({k \in 1..Len(ls) : ls[k].kind = kind})

\* The section of the thread at hand is in the report.
Rendered == Split /\ ppc \in {"thread", "done"}

\* C4: the section of a batched thread holds the all-batches-failed line if
\* and only if every batch of the thread failed.
C4_AllFailedIffEveryBatchFailed ==
  Rendered =>
    (HasKind(ThreadSection, "all_failed")
       <=> \A k \in 1..Len(ThreadCalls) : ~CallSucceeded(ThreadCalls[k]))

\* A batch that succeeded with categories: a non-empty list of objects.
WithCategories(c) ==
  /\ CallSucceeded(c)
  /\ IsDict(Outcome(c).val)
  /\ HasKey(Outcome(c).val, K_categories)
  /\ IsList(DictGet(Outcome(c).val, K_categories))
  /\ DictGet(Outcome(c).val, K_categories).v # <<>>
  /\ \A k \in 1..Len(DictGet(Outcome(c).val, K_categories).v) :
       IsDict(DictGet(Outcome(c).val, K_categories).v[k])

\* C5: when a batch of a split thread succeeded with categories and another
\* failed, the section of the thread holds the merged categories and one
\* failure line for each failed batch, and no all-batches-failed line.
C5_PartialFailureRendered ==
  (/\ ThreadEnded
   /\ \E k \in 1..Len(ThreadCalls) : WithCategories(ThreadCalls[k])
   /\ \E k \in 1..Len(ThreadCalls) : CallFailed(ThreadCalls[k]))
  => /\ ppc # "crashed"
     /\ HasKind(ThreadSection, "categories_title")
     /\ HasKind(ThreadSection, "category")
     /\ CountKind(ThreadSection, "batch_failed")
          = Cardinality({k \in 1..Len(ThreadCalls) : CallFailed(ThreadCalls[k])})
     /\ ~HasKind(ThreadSection, "all_failed")

\* The threads build_ai_summary_section has to report on (line 704).
EligibleThreads == ValidThreads(GroupMessagesByThread(rows), Threshold(min_thread_messages))

\* C6: whatever a call gives, build_ai_summary_section raises nothing, and
\* the report it returns has a section for every eligible thread, each with
\* results or a failure line.
C6_NoOutcomeAborts ==
  /\ raised = "none"
  /\ ppc # "crashed"
  /\ (ppc = "done" /\ calls # <<>>) => CountKind(lines, "thread_title") = Len(EligibleThreads)


\* The lines of a section that show an overall.
IsOverallLine(l) == l.kind \in {"overalls_title", "batch_overall", "overall"}
OverallPart(ls) == SelectSeq(ls, IsOverallLine)

SucceededCount == Cardinality({k \in 1..Len(ThreadCalls) : CallSucceeded(ThreadCalls[k])})

\* The overall texts of the batches that succeeded, without a label.
Unlabelled(overalls) == [k \in 1..Len(overalls) |-> Line("overall", overalls[k].overall)]

\* C17: the merged overall of a split thread is, when more than one batch
\* succeeded, the overall of each successful batch with its batch label, in
\* ascending batch order; when exactly one batch succeeded, that overall
\* verbatim without a batch label; when none succeeded, no overall at all.
C17_MergedOverall ==
  Rendered =>
    /\ SucceededCount > 1 =>
         OverallPart(ThreadSection) = MergedOverallLines(OverallsFrom(ThreadCalls, 1))
    /\ SucceededCount = 1 =>
         OverallPart(ThreadSection) = Unlabelled(OverallsFrom(ThreadCalls, 1))
    /\ SucceededCount = 0 => OverallPart(ThreadSection) = <<>>

\* The thread at hand is handled by _process_single_thread.
Unsplit == thread # NoThread /\ Len(thread.rows) <= cfg.ai_max_messages_per_batch

\* The number of rows of the report that belong to a thread.
ThreadLength(tid) == Cardinality({k \in 1..Len(rows) : rows[k].thread_id = tid})

\* C21: a thread of at most ai_max_messages_per_batch rows (also of exactly
\* that many) gets exactly one call, made from all the rows of the thread,
\* whose request carries no batch_info; a request carries batch_info only
\* when its thread has more rows than ai_max_messages_per_batch.
C21_ShortThreadOneCallNoLabel ==
  /\ \A k \in 1..Len(calls) :
       calls[k].payload.batch_info.given
         <=> ThreadLength(calls[k].thread_id) > cfg.ai_max_messages_per_batch
  /\ (Unsplit /\ ppc = "single") => ThreadCalls = <<>>
  /\ (Unsplit /\ ppc \in {"thread", "done", "crashed"}) =>
       /\ Len(ThreadCalls) = 1
       /\ ThreadCalls[1].rows = thread.rows
       /\ ThreadCalls[1].payload.messages = ConvertRowsToMessages(thread.rows, conn.ids)
       /\ ~ThreadCalls[1].payload.batch_info.given

\* A thread of exactly two rows with batches of two: one call, no batch_info.
C21_Witness ==
  /\ ppc = "thread"
  /\ thread # NoThread
  /\ Len(thread.rows) = 2
  /\ cfg.ai_max_messages_per_batch = 2
  /\ Len(ThreadCalls) = 1
  /\ ~ThreadCalls[1].payload.batch_info.given

\* C28: every summarization call made for a thread or for one of its batches
\* carries at least one message in its payload, also when rows were dropped
\* because their reply target is missing from the store.
C28_NoCallWithoutMessages == \A k \in 1..Len(calls) : calls[k].payload.messages # <<>>

\* The thread titles of the report, in the order they were written, and the
\* place where a thread's first row stands in the rows of the report.
ThreadTitles == SelectSeq(lines, LAMBDA l : l.kind = "thread_title")
FirstRowOf(tid) == CHOOSE k \in 1..Len(rows) : rows[k].thread_id = tid /\ \A j \in 1..(k - 1) : rows[j].thread_id # tid
ThreadIds == {rows[k].thread_id : k \in 1..Len(rows)}

\* Thread a comes before thread b: more rows, or as many and seen first.
ComesBefore(a, b) ==
  \/ ThreadLength(a) > ThreadLength(b)
  \/ ThreadLength(a) = ThreadLength(b) /\ FirstRowOf(a) < FirstRowOf(b)

\* C29: the service is called only for threads of at least threshold rows
\* (min_thread_messages when given, else MIN_THREAD_MESSAGES); a thread below
\* the threshold gets neither a call nor a section; the eligible threads are
\* processed and rendered by descending number of rows, threads of equal
\* length in first-seen order, and each of them has its section at the end.
C29_OnlyEligibleThreadsInOrder ==
  /\ \A k \in 1..Len(calls) :
        /\ calls[k].thread_id \in ThreadIds
        /\ ThreadLength(calls[k].thread_id) >=
             (IF min_thread_messages.given THEN min_thread_messages.n ELSE MIN_THREAD_MESSAGES)
  /\ \A k \in 1..Len(ThreadTitles) :
        /\ ThreadTitles[k].val.thread_id \in ThreadIds
        /\ ThreadTitles[k].val.total_messages = ThreadLength(ThreadTitles[k].val.thread_id)
        /\ ThreadLength(ThreadTitles[k].val.thread_id) >=
             (IF min_thread_messages.given THEN min_thread_messages.n ELSE MIN_THREAD_MESSAGES)
  /\ \A j, k \in 1..Len(ThreadTitles) :
        j < k => ComesBefore(ThreadTitles[j].val.thread_id, ThreadTitles[k].val.thread_id)
  /\ \A j, k \in 1..Len(calls) :
        j < k => \/ calls[j].thread_id = calls[k].thread_id
                 \/ ComesBefore(calls[j].thread_id, calls[k].thread_id)
  /\ \A k \in 1..Len(calls) :
        \E j \in 1..Len(ThreadTitles) : ThreadTitles[j].val.thread_id = calls[k].thread_id
  /\ (ppc = "done" /\ HasKind(lines, "thread_count")) =>
        {ThreadTitles[k].val.thread_id : k \in 1..Len(ThreadTitles)}
          = {tid \in ThreadIds :
               ThreadLength(tid) >=
                 (IF min_thread_messages.given THEN min_thread_messages.n ELSE MIN_THREAD_MESSAGES)}

\* Two threads of one row each, the answers to message 1 seen first: both
\* are rendered, in first-seen order, with one call each.
C29_Witness ==
  /\ ppc = "done"
  /\ Len(rows) = 2
  /\ rows[1].thread_id # TOP_THREAD_ID
  /\ rows[2].thread_id = TOP_THREAD_ID
  /\ Len(ThreadTitles) = 2
  /\ ThreadTitles[1].val.thread_id = rows[1].thread_id
  /\ ThreadTitles[2].val.thread_id = TOP_THREAD_ID
  /\ Len(calls) = 2

\* A thread of one row below a threshold of two: no call, no section, while
\* the thread of two rows has both.
C29_WitnessBelow ==
  /\ ppc = "done"
  /\ min_thread_messages = [given |-> TRUE, n |-> 2]
  /\ Len(rows) = 3
  /\ Cardinality(ThreadIds) = 2
  /\ Len(ThreadTitles) = 1
  /\ calls # <<>>

(***************************************************************************)
(* Properties of the categories                                            *)
(***************************************************************************)
\* _merge_categories has returned.
Merged == cat_pc \in {"format", "done"}

\* The name a category is collected under (line 376), for each category of the
\* merged list, and the ids of all the categories collected under one name.
NamesSeen == [k \in 1..Len(cat_list) |-> CatName(cat_list[k])]

RECURSIVE IdsNamed(_, _)
IdsNamed(cats, name) ==
  IF cats = <<>> THEN <<>>
  ELSE (IF CatName(Head(cats)) = name THEN Items(CatMessages(Head(cats))) ELSE <<>>)
       \o IdsNamed(Tail(cats), name)

FirstAt(seq, x) == CHOOSE k \in 1..Len(seq) : seq[k] = x /\ \A j \in 1..(k - 1) : seq[j] # x

\* seq holds exactly the elements of from, each once, in the order of their
\* first occurrence in from.
IsFirstOccurrences(seq, from) ==
  /\ {seq[k] : k \in 1..Len(seq)} = {from[k] : k \in 1..Len(from)}
  /\ \A j, k \in 1..Len(seq) : j < k => FirstAt(from, seq[j]) < FirstAt(from, seq[k])

\* C15: _merge_categories groups the categories by exact, case-sensitive
\* name, the names in first-seen order; the ids of a group are the ids of its
\* categories in the order seen, every repeated id dropped, the first
\* occurrence kept.
C15_MergeGroupsByName ==
  Merged =>
    /\ IsFirstOccurrences([k \in 1..Len(cat_map) |-> cat_map[k].name], NamesSeen)
    /\ \A k \in 1..Len(cat_map) :
         IsFirstOccurrences(cat_map[k].message_ids, IdsNamed(cat_list, cat_map[k].name))

\* Two batches gave the name A with the ids [1, 2] and [2, 3], and the name a
\* in between: A has the ids [1, 2, 3], and a is a group of its own.
C15_Witness ==
  /\ Merged
  /\ cat_is_batch
  /\ cat_list = <<Category(<<"A">>, <<"s">>, <<JInt(1), JInt(2)>>),
                  Category(<<"a">>, <<"s">>, <<JInt(1), JInt(2)>>),
                  Category(<<"A">>, <<"t">>, <<JInt(2), JInt(3)>>)>>
  /\ [k \in 1..Len(cat_map) |-> cat_map[k].name] = <<JString(Ords(<<"A">>)), JString(Ords(<<"a">>))>>
  /\ cat_map[1].message_ids = <<JInt(1), JInt(2), JInt(3)>>
  /\ cat_map[2].message_ids = <<JInt(1), JInt(2)>>


\* The summaries collected for a name (lines 380-382): the non-empty
\* summaries of its categories, in the order seen.
RECURSIVE SummariesNamed(_, _)
SummariesNamed(cats, name) ==
  IF cats = <<>> THEN <<>>
  ELSE (IF CatName(Head(cats)) = name /\ Truthy(CatSummary(Head(cats)))
        THEN <<CatSummary(Head(cats))>> ELSE <<>>)
       \o SummariesNamed(Tail(cats), name)

\* The summary lines that follow the line of the category `name`.
CategoryAt(ls, name) == CHOOSE k \in 1..Len(ls) : ls[k].kind = "category" /\ ls[k].val = name

RECURSIVE SummaryRun(_, _)
SummaryRun(ls, k) ==
  IF k <= Len(ls) /\ ls[k].kind = "summary" THEN <<ls[k]>> \o SummaryRun(ls, k + 1) ELSE <<>>

SummaryUnder(ls, name) == SummaryRun(ls, CategoryAt(ls, name) + 1)

\* All the summaries of a name: one verbatim, several joined with " | ".
AllJoined(summaries) == IF summaries = <<>> THEN <<>> ELSE SummaryLines(JoinSummaries(summaries))

\* C16: for every merged category the rendered summary is the join, with a
\* separator, of all the summaries collected for its name when there are
\* several, and the single summary verbatim when there is one: none is left
\* out, whether the categories come from several batches or from one
\* response that repeats a name.
C16_EverySummaryRendered ==
  cat_pc = "done" =>
    \A k \in 1..Len(cat_map) :
      SummaryUnder(cat_lines, cat_map[k].name) = AllJoined(SummariesNamed(cat_list, cat_map[k].name))

\* The sound part: the categories of the batches of a split thread.
C16_BatchSummariesJoined ==
  (cat_pc = "done" /\ cat_is_batch) =>
    \A k \in 1..Len(cat_map) :
      SummaryUnder(cat_lines, cat_map[k].name) = AllJoined(SummariesNamed(cat_list, cat_map[k].name))


\* The names of the categories of the section, in the order of their lines.
IsCategoryLine(l) == l.kind = "category"
RenderedNames == [k \in 1..Len(SelectSeq(cat_lines, IsCategoryLine)) |-> SelectSeq(cat_lines, IsCategoryLine)[k].val]

\* The names in the order the response, or the batches, gave them.
NamesGiven == [k \in 1..Len(cat_input) |-> CatName(cat_input[k])]

IsKnownName(name) == \E k \in 1..Len(KnownNames) : KnownNames[k] = name

InPriorityOrder(names, given) ==
  \A j, k \in 1..Len(names) :
    j < k =>
      /\ CategoryPriority(names[j]) <= CategoryPriority(names[k])
      /\ ~IsKnownName(names[j]) => ~IsKnownName(names[k])
      /\ CategoryPriority(names[j]) = CategoryPriority(names[k]) =>
           FirstAt(given, names[j]) < FirstAt(given, names[k])

\* C18: in the rendered section the categories appear in ascending rank of
\* the priority table; a name the table does not hold has the default rank
\* and comes after all the known names; categories of equal rank, all the
\* unknown names in particular, keep their first-seen order.
C18_PriorityOrder ==
  cat_pc = "done" =>
    /\ Len(RenderedNames) = Len(cat_map)
    /\ InPriorityOrder(RenderedNames, NamesGiven)

\* One response gave c, B, a: the section shows B, c, a.
C18_Witness ==
  /\ cat_pc = "done"
  /\ ~cat_is_batch
  /\ Len(cat_input) = 3
  /\ NamesGiven = <<JString(Ords(<<"c">>)), JString(Ords(<<"B">>)), JString(Ords(<<"a">>))>>
  /\ RenderedNames = <<JString(Ords(<<"B">>)), JString(Ords(<<"c">>)), JString(Ords(<<"a">>))>>


\* The ids of the reference lines among ls, in their order.
IsRefLine(l) == l.kind = "ref"
RefIds(ls) == [k \in 1..Len(SelectSeq(ls, IsRefLine)) |-> SelectSeq(ls, IsRefLine)[k].val.id]

\* The lines from the category line at k up to the next category line.
UnderCategory(k) ==
  SubSeq(cat_lines, k,
         IF \E j \in (k + 1)..Len(cat_lines) : IsCategoryLine(cat_lines[j])
         THEN (CHOOSE j \in (k + 1)..Len(cat_lines) :
                 /\ IsCategoryLine(cat_lines[j])
                 /\ \A h \in (k + 1)..(j - 1) : ~IsCategoryLine(cat_lines[h])) - 1
         ELSE Len(cat_lines))

\* The ids collected under a name by _merge_categories.
IdsOfName(name) == cat_map[CHOOSE k \in 1..Len(cat_map) : cat_map[k].name = name].message_ids

\* C23 as the specification words it: under each category the messages that
\* category references are listed, as a list without a repeated id in the
\* order in which the ids were first seen.
C23_ReferencesUnderEachCategory ==
  cat_pc = "done" =>
    \A k \in 1..Len(cat_lines) :
      IsCategoryLine(cat_lines[k]) =>
        RefIds(UnderCategory(k)) = KeepFirst(<<>>, IdsOfName(cat_lines[k].val))

\* The ids of all the categories, in the order the categories are shown.
RECURSIVE IdsInOrder(_)
IdsInOrder(names) ==
  IF names = <<>> THEN <<>> ELSE IdsOfName(Head(names)) \o IdsInOrder(Tail(names))

LastCategoryLine ==
  CHOOSE k \in 1..Len(cat_lines) :
    IsCategoryLine(cat_lines[k]) /\ \A j \in (k + 1)..Len(cat_lines) : ~IsCategoryLine(cat_lines[j])

\* C23, amended: the categories of a thread section are followed by one
\* list of original references for all of them; it holds every id that a
\* shown category references, each once, in the order in which the ids are
\* first met over the categories as they are shown.
C23_OneReferenceListInOrder ==
  cat_pc = "done" =>
    /\ IsFirstOccurrences(RefIds(cat_lines), IdsInOrder(RenderedNames))
    /\ RefIds(SubSeq(cat_lines, 1, LastCategoryLine)) = <<>>
    /\ CountKind(cat_lines, "refs_title") = IF IdsInOrder(RenderedNames) = <<>> THEN 0 ELSE 1

\* B with the ids 2, 3 is shown before c with the ids 1, 2: one list 2, 3, 1
\* after both.
C23_Witness ==
  /\ cat_pc = "done"
  /\ RenderedNames = <<JString(Ords(<<"B">>)), JString(Ords(<<"c">>))>>
  /\ IdsOfName(JString(Ords(<<"B">>))) = <<JInt(2), JInt(3)>>
  /\ IdsOfName(JString(Ords(<<"c">>))) = <<JInt(1), JInt(2)>>
  /\ RefIds(cat_lines) = <<JInt(2), JInt(3), JInt(1)>>

\* Every category handed over is an object.
AllObjects == \A k \in 1..Len(cat_input) : IsDict(cat_input[k])

SummariesOfName(name) == cat_map[CHOOSE k \in 1..Len(cat_map) : cat_map[k].name = name].summaries

\* C25: a category without a summary is rendered as its name line alone, an
\* id that matches no row of the report is listed without a preview, a
\* category with an empty id list adds no reference, and none of the three
\* makes the rendering raise.
C25_LegalCategoriesRender ==
  /\ AllObjects => cat_pc # "raised"
  /\ cat_pc = "done" =>
       /\ \A k \in 1..Len(cat_lines) :
            (IsCategoryLine(cat_lines[k]) /\ SummariesOfName(cat_lines[k].val) = <<>>)
              => (k = Len(cat_lines) \/ cat_lines[k + 1].kind # "summary")
       /\ \A k \in 1..Len(cat_lines) :
            (IsRefLine(cat_lines[k]) /\ ~InMessageMap(CatRows, cat_lines[k].val.id))
              => cat_lines[k].val.text = <<>>
       /\ Len(RefIds(cat_lines)) = Len(KeepFirst(<<>>, IdsInOrder(RenderedNames)))
       /\ IdsInOrder(RenderedNames) = <<>> => ~HasKind(cat_lines, "refs_title")

\* A without a summary and B without ids were rendered: A, then B with its
\* summary, then the one reference of A; and c alone with the id 1, which no
\* row has, is listed without a preview.
C25_Witness ==
  /\ cat_pc = "done"
  /\ \/ /\ RenderedNames = <<JString(Ords(<<"A">>)), JString(Ords(<<"B">>))>>
        /\ SummariesOfName(JString(Ords(<<"A">>))) = <<>>
        /\ IdsOfName(JString(Ords(<<"B">>))) = <<>>
        /\ RefIds(cat_lines) = <<JInt(3)>>
     \/ /\ RenderedNames = <<JString(Ords(<<"c">>))>>
        /\ \E k \in 1..Len(cat_lines) :
             /\ IsRefLine(cat_lines[k])
             /\ cat_lines[k].val.id = JInt(1)
             /\ cat_lines[k].val.text = <<>>

(***************************************************************************)
(* Properties of the grouping                                              *)
(***************************************************************************)
\* The rows the loop has been through.
RowsGrouped == SubSeq(grp_rows, 1, grp_idx - 1)

\* The rows of rs that belong to the thread tid, in the order of rs.
RowsOfThread(rs, tid) == SelectSeq(rs, LAMBDA row : row.thread_id = tid)

\* How often the row is found in all the groups together.
TimesGrouped(row) ==
  Cardinality({p \in {<<g, k>> : g \in 1..Len(grp_threads), k \in 1..Len(grp_rows)} :
                 p[2] <= Len(grp_threads[p[1]].rows) /\ grp_threads[p[1]].rows[p[2]] = row})

\* C20: _group_messages_by_thread is a partition that does not reorder:
\* every row is in exactly one group, the group keyed by its thread_id, no
\* group is empty, and the rows of a group are in the order of the input.
C20_GroupingIsPartition ==
  /\ \A g, h \in 1..Len(grp_threads) : g # h => grp_threads[g].tid # grp_threads[h].tid
  /\ \A g \in 1..Len(grp_threads) :
       /\ grp_threads[g].rows # <<>>
       /\ grp_threads[g].rows = RowsOfThread(RowsGrouped, grp_threads[g].tid)
  /\ \A k \in 1..Len(RowsGrouped) : TimesGrouped(RowsGrouped[k]) = 1
  /\ grp_pc = "done" => RowsGrouped = grp_rows

\* Four rows, top level, reply to 1, top level, reply to 1: two groups, each
\* with its two rows in the order of the input.
C20_Witness ==
  /\ grp_pc = "done"
  /\ Len(grp_rows) = 4
  /\ [k \in 1..4 |-> grp_rows[k].thread_id] = <<TOP_THREAD_ID, 1, TOP_THREAD_ID, 1>>
  /\ grp_threads = <<[tid |-> TOP_THREAD_ID, rows |-> <<grp_rows[1], grp_rows[3]>>],
                     [tid |-> 1, rows |-> <<grp_rows[2], grp_rows[4]>>]>>

(***************************************************************************)
(* Properties of the messages table                                        *)
(***************************************************************************)
ThreadIdRight(row) == row.thread_id = ThreadIdFor(row.reply_to)

\* ensure_db has returned in this run.
Migrated == db_pc \in {"ready", "pulled"}

\* What fetch_incremental wrote is right in every state.
WrittenRowsRight == \A row \in db_rows : row.message_id \in db_written => ThreadIdRight(row)

\* C19: every stored message has thread_id equal to its reply target when it
\* has one and TOP_THREAD_ID otherwise: each row that fetch_incremental
\* wrote, and each row of the table once ensure_db has run its migration.
C19_ThreadIdFollowsReplyTarget ==
  /\ WrittenRowsRight
  /\ Migrated => \A row \in db_rows : ThreadIdRight(row)

(***************************************************************************)
(* Properties of the top lists                                             *)
(***************************************************************************)
PlaceIn(first, key) == CHOOSE k \in 1..Len(first) : first[k] = key

\* a comes before b: more rows, or as many and seen first.
Outranks(a, b, first) ==
  \/ a.cnt > b.cnt
  \/ a.cnt = b.cnt /\ PlaceIn(first, a.key) < PlaceIn(first, b.key)

IsTopList(top, stats, first, n) ==
  /\ Len(top) <= n
  /\ Len(top) = IF Len(stats) < n THEN Len(stats) ELSE n
  /\ \A j \in 1..Len(top) : \E k \in 1..Len(stats) : stats[k] = top[j]
  /\ \A j, k \in 1..Len(top) : j < k => Outranks(top[j], top[k], first)
  /\ \A k \in 1..Len(stats) :
       (\A j \in 1..Len(top) : top[j] # stats[k])
         => \A j \in 1..Len(top) : Outranks(top[j], stats[k], first)

\* C22: the list of active users and the list of popular reply targets hold
\* at most N entries in descending count, and entries of equal count stand
\* in the order in which the rows first showed their keys.
C22_TopListsStable ==
  st_pc = "done" =>
    /\ IsTopList(st_top_users, st_user_stats, st_first.users, st_top_n.users)
    /\ IsTopList(st_top_threads, st_thread_stats, st_first.threads, st_top_n.threads)

\* Counts {unknown: 1, user_1: 1, user_2: 2} in this order show as user_2,
\* unknown, user_1, and a limit of two keeps the first two of them.
C22_Witness ==
  /\ st_pc = "done"
  /\ st_user_stats = <<[key |-> <<"unknown">>, cnt |-> 1], [key |-> <<"user_", 1>>, cnt |-> 1],
                       [key |-> <<"user_", 2>>, cnt |-> 2]>>
  /\ \/ /\ st_top_n.users = TOP_N_USERS
        /\ st_top_users = <<[key |-> <<"user_", 2>>, cnt |-> 2], [key |-> <<"unknown">>, cnt |-> 1],
                            [key |-> <<"user_", 1>>, cnt |-> 1]>>
     \/ /\ st_top_n.users = MaxTopN
        /\ st_top_users = <<[key |-> <<"user_", 2>>, cnt |-> 2], [key |-> <<"unknown">>, cnt |-> 1]>>

(***************************************************************************)
(* Properties of the previews                                              *)
(***************************************************************************)
NoNewline(cps) == \A k \in 1..Len(cps) : cps[k] # 10

\* A preview without the backslashes that protect ] and ) in a link text.
RECURSIVE Unprotected(_)
Unprotected(cps) ==
  IF cps = <<>> THEN <<>>
  ELSE IF Len(cps) > 1 /\ Head(cps) = 92 /\ cps[2] \in {93, 41}
  THEN <<cps[2]>> \o Unprotected(SubSeq(cps, 3, Len(cps)))
  ELSE <<Head(cps)>> \o Unprotected(Tail(cps))

\* The body cut to the budget with its newlines made blanks, the blanks
\* around it dropped.
CutAndFlat(body) == StripCps(NewlinesToSpaces(CutText(body)))

\* The preview shows the body, or the body without the blanks around it, cut
\* and flattened; blanks at the ends and protecting backslashes do not count.
IsPreviewOf(preview, body) ==
  /\ NoNewline(preview)
  /\ StripCps(Unprotected(preview)) \in {CutAndFlat(body), CutAndFlat(StripCps(body))}

\* C24: every preview of the text of a message in the report is the body cut
\* to 50 characters, with an ellipsis when the body is longer, and holds no
\* newline: every newline of the body is replaced by a blank.
C24_PreviewsCutAndFlat ==
  /\ (pv_pc \in {"section", "done"} /\ pv_text # <<>>) => IsPreviewOf(pv_thread, pv_text)
  /\ (pv_pc = "done" /\ StripCps(pv_text) # <<>>) => IsPreviewOf(pv_ref, pv_text)

\* The preview among the popular reply targets alone.
C24_ThreadPreviewCutAndFlat ==
  (pv_pc \in {"section", "done"} /\ pv_text # <<>>) => IsPreviewOf(pv_thread, pv_text)

(***************************************************************************)
(* Properties of the conversion                                            *)
(***************************************************************************)
\* The place in rows of the row with this id.
RowPlace(id) == CHOOSE k \in 1..Len(cv_rows) : cv_rows[k].message_id = id

\* The row answers nothing, or a message the store has.
TargetStored(row) == row.reply_to = NoReply \/ row.reply_to \in cv_store

\* C26: the messages returned are the rows that answer nothing or answer a
\* message of the store, all of them and no other, in the order of the rows;
\* a row whose reply target is missing is in the result under no form.
C26_ConversionKeepsOrderDropsOrphans ==
  cv_pc = "done" =>
    /\ \A j \in 1..Len(cv_messages) :
         /\ \E k \in 1..Len(cv_rows) : cv_rows[k].message_id = cv_messages[j].id
         /\ TargetStored(cv_rows[RowPlace(cv_messages[j].id)])
         /\ cv_messages[j].reply_to = cv_rows[RowPlace(cv_messages[j].id)].reply_to
         /\ cv_messages[j].text = cv_rows[RowPlace(cv_messages[j].id)].text
    /\ \A j, k \in 1..Len(cv_messages) :
         j < k => RowPlace(cv_messages[j].id) < RowPlace(cv_messages[k].id)
    /\ \A k \in 1..Len(cv_rows) :
         TargetStored(cv_rows[k]) <=> \E j \in 1..Len(cv_messages) : cv_messages[j].id = cv_rows[k].message_id

\* Of the rows 2, 3 (answers 1), 4 (answers 2), 5 with message 1 not stored,
\* the rows 2, 4, 5 are returned.
C26_Witness ==
  /\ cv_pc = "done"
  /\ 1 \notin cv_store
  /\ [k \in 1..Len(cv_rows) |-> cv_rows[k].reply_to] = <<NoReply, 1, 2, NoReply>>
  /\ [k \in 1..Len(cv_messages) |-> cv_messages[k].id] = <<2, 4, 5>>


(***************************************************************************)
(* Properties of the pull                                                  *)
(***************************************************************************)
\* The largest id of a set, 0 for the empty set.
LargestOf(ids) == IF ids = {} THEN 0 ELSE CHOOSE m \in ids : \A n \in ids : n <= m

\* One step of the pull: last_id does not go down; it moves only from the
\* state after the commit, to the id of a committed row; a run that raises
\* leaves the rows and last_id alone.
PullStepRight ==
  /\ pull_file' >= pull_file
  /\ pull_file' # pull_file =>
       /\ pull_pc = "committed"
       /\ pull_tx = {}
       /\ pull_file' \in pull_stored
  /\ pull_pc' = "raised" => (pull_stored' = pull_stored /\ pull_file' = pull_file)

\* Between two runs no row is newer than last_id, and during a run that has
\* not committed the rows and last_id are those of its start.
PullStateRight ==
  /\ pull_file <= LargestOf(pull_handled)
  /\ pull_file = 0 \/ pull_file \in pull_stored
  /\ pull_pc \in {"loop", "raised"} =>
       /\ pull_file = pull_last_id
       /\ \A id \in pull_stored : id <= pull_file
  /\ pull_pc = "returned" => pull_file = LargestOf(pull_stored)

\* C30: over any sequence of fetch_incremental runs the stored last_id never
\* decreases and is advanced only after the rows the run inserted have been
\* committed; a run that raises before the commit leaves the message store
\* and last_id as they were; last_id is never greater than the largest
\* message id the pull has handled.
C30_LastIdFollowsCommittedRows == []PullStateRight /\ [][PullStepRight]_vars

\* A run that inserted message 3 and raised, after a run that had stored
\* message 1 and set last_id to 1: the store and last_id are those of the
\* first run.
C30_Witness ==
  /\ pull_pc = "raised"
  /\ pull_file = 1
  /\ pull_stored = {1}
  /\ pull_handled = {1, 3}

\* A run that committed and advanced last_id to the newest row.
C30_WitnessAdvanced ==
  /\ pull_pc = "returned"
  /\ pull_last_id = 1
  /\ pull_file = 3
  /\ pull_stored = {1, 3}

=============================================================================
